---- MODULE Spec2Model ----
(***************************************************************************)
(* Request governance of the legal-assistance UI (src/src/utils/gemini.ts) *)
(*                                                                         *)
(* The module-scoped RateLimiter singleton, the dispatcher                 *)
(* makeAPIRequestWithFallback, sendChatMessage and the 1-second UI poll,   *)
(* as a state machine over one event loop.  A send runs synchronously up   *)
(* to its backend await, so each action below is one event-loop turn.      *)
(*                                                                         *)
(* Time is counted in ticks of 500 ms: minInterval is the 1000 ms          *)
(* of the second RateLimiter, while timeWindow (60000 ms) and              *)
(* maxRequestsPerMinute (30) are scaled down together so that both gates   *)
(* and the pruning of expired records happen within a short run.           *)
(*                                                                         *)
(* SpecLoop takes the two senders statement by statement, to show which    *)
(* statements of different sends can interleave.  SpecNorm is the request  *)
(* function of getStructuredChatResponse from the backend's reply to the   *)
(* document it returns: texts are sequences of characters, and the         *)
(* clean-up chain, the two brace patterns, JSON.parse and JSON.stringify   *)
(* are computed character by character.                                    *)
(***************************************************************************)
EXTENDS Integers, Sequences, FiniteSets, TLC

\* ---- bounds of the model ----
\* send slots that may be in flight at once on the event loop
MaxSends == 2
\* clock ticks explored after page load
MaxTicks == 6

\* ---- program constants (in ticks of 500 ms; see the header) ----
maxRequestsPerMinute == 2
timeWindow == 5
minInterval == 2
\* 1000 ms, the divisor of Math.ceil(waitTime / 1000)
Second == 2

\* Date.now() at page load: far beyond timeWindow after the epoch 0 that
\* lastRequestTime starts from
Epoch == timeWindow + minInterval

Slots == 1..MaxSends

VARIABLES
    now,                \* Date.now()
    requests,           \* RateLimiter.requests
    lastRequestTime,    \* RateLimiter.lastRequestTime
    sends,              \* the sends in flight, one record per slot
    settled,            \* the send that settled last, with its outcome
    admissions,         \* history: the timestamps pushed by recordRequest
                        \* during the trailing timeWindow
    rateLimitCountdown, \* the UI components' rateLimitCountdown state
    turn,               \* the send whose code the event loop is running, or 0
    lpc,                \* per send: where its code stands, statement by
                        \* statement
    lastGov,            \* history: the latest call made on the RateLimiter
    nraw,               \* response.text() of one backend reply
    nprompt,            \* the prompt of that request
    npc,                \* where requestFn stands after its awaits
    ntext,              \* the local variable text of requestFn
    nparsed,            \* history: the value JSON.parse returned last
    nout,               \* what requestFn returned or threw
    response,           \* the document handed to parseLegalResponse, as it
                        \* is in memory
    received,           \* history: that document as it was when handed in
    analysis,           \* the LegalAnalysis parseLegalResponse returned
    showWelcome,        \* App: the welcome screen is showing
    activeComponent,    \* App: the component shown after it
    formData,           \* CaseAnalysis: the form
    input,              \* ChatInterface: the text of the input
    isAnalyzing,        \* CaseAnalysis: a request is in flight
    isLoading,          \* ChatInterface: a request is in flight
    errorShown,         \* CaseAnalysis: the state error, displayed
    lastMessage,        \* ChatInterface: the message added last
    pending,            \* the response the handler awaits, with history:
                        \* the data entered when the user submitted
    polledAt            \* when the interval callback ran last

\* the statement-level view of the senders
loopVars == <<turn, lpc, lastGov>>
\* the response normalizer
normVars == <<nraw, nprompt, npc, ntext, nparsed, nout>>
\* the turn-level view of the senders
sendVars == <<sends, settled, admissions, rateLimitCountdown>>
\* the analysis of a case
caseVars == <<response, received, analysis>>
\* the state of the React components
componentVars == <<caseVars, showWelcome, activeComponent, formData, input,
                   isAnalyzing, isLoading, errorShown, lastMessage, pending,
                   polledAt>>

vars == <<now, requests, lastRequestTime, sends, settled, admissions,
          rateLimitCountdown, loopVars, normVars, componentVars>>

\* ---- helpers ----
RECURSIVE MinOf(_)
\* Math.min(...xs) of a non-empty sequence
MinOf(xs) ==
    IF Len(xs) = 1 THEN xs[1]
    ELSE LET m == MinOf(Tail(xs)) IN IF xs[1] < m THEN xs[1] ELSE m

\* Math.ceil(a / b) for b > 0
CeilDiv(a, b) == IF a % b = 0 THEN a \div b ELSE (a \div b) + 1

\* String.prototype.includes on character sequences
includes(msg, needle) ==
    \E i \in 1..(Len(msg) - Len(needle) + 1) :
        SubSeq(msg, i, i + Len(needle) - 1) = needle

\* ---- the response normalizer: texts ----
\* A text is a sequence of characters.

\* the characters the class \s matches
WhiteSpace == {" ", "\n", "\t"}

\* the grave accent, which a string of this language cannot hold
Backtick == "U+0060"

\* the code fence of markdown
Fence == <<Backtick, Backtick, Backtick>>

\* the literal lit stands in text at position i
At(text, i, lit) ==
    /\ i + Len(lit) - 1 <= Len(text)
    /\ SubSeq(text, i, i + Len(lit) - 1) = lit

\* first position at or after i whose character is in cls, 0 when
\* there is none
firstOf(text, cls, i) ==
    LET found == {k \in i..Len(text) : text[k] \in cls}
    IN  IF found = {} THEN 0
        ELSE CHOOSE k \in found : \A m \in found : k <= m

\* first position at or after i whose character is not in cls, the
\* position after the text when there is none
skip(text, cls, i) ==
    LET found == {k \in i..Len(text) : text[k] \notin cls}
    IN  IF found = {} THEN Len(text) + 1
        ELSE CHOOSE k \in found : \A m \in found : k <= m

\* last position at or before i whose character is not in cls, 0 when
\* there is none
skipBack(text, cls, i) ==
    LET found == {k \in 1..i : text[k] \notin cls}
    IN  IF found = {} THEN 0
        ELSE CHOOSE k \in found : \A m \in found : m <= k

\* String.prototype.trim
trim(text) ==
    LET first == skip(text, WhiteSpace, 1)
        last == skipBack(text, WhiteSpace, Len(text))
    IN  IF first > last THEN <<>> ELSE SubSeq(text, first, last)

\* first position at or after i at which the literal lit stands, 0 when
\* there is none
indexOf(text, lit, i) ==
    LET found == {k \in i..Len(text) : At(text, k, lit)}
    IN  IF found = {} THEN 0
        ELSE CHOOSE k \in found : \A m \in found : k <= m

RECURSIVE removeAll(_, _, _, _)
\* text.replace(/lit\s*/g, '') when eatWs, text.replace(/lit/g, '')
\* otherwise, from position i on: the text up to the next match is
\* kept and the scan goes on after the match
removeAll(text, lit, eatWs, i) ==
    LET k == indexOf(text, lit, i)
    IN  IF k = 0 THEN SubSeq(text, i, Len(text))
        ELSE SubSeq(text, i, k - 1)
             \o removeAll(text, lit, eatWs,
                          IF eatWs THEN skip(text, WhiteSpace, k + Len(lit))
                          ELSE k + Len(lit))

RECURSIVE collapse(_, _, _)
\* text.replace(/[cls]+/g, ' ') from position i on
collapse(text, cls, i) ==
    LET k == firstOf(text, cls, i)
    IN  IF k = 0 THEN SubSeq(text, i, Len(text))
        ELSE SubSeq(text, i, k - 1) \o <<" ">>
             \o collapse(text, cls, skip(text, cls, k))

\* the clean-up chain applied to the response text
cleanUp(text) ==
    LET noJsonFence == removeAll(text, Fence \o <<"j", "s", "o", "n">>,
                                 TRUE, 1)
        noFence == removeAll(noJsonFence, Fence, TRUE, 1)
        noBold == removeAll(noFence, <<"*", "*">>, FALSE, 1)
        noH3 == removeAll(noBold, <<"#", "#", "#">>, TRUE, 1)
        noH2 == removeAll(noH3, <<"#", "#">>, TRUE, 1)
        noH1 == removeAll(noH2, <<"#">>, TRUE, 1)
        noNewlines == collapse(noH1, {"\n"}, 1)
        normalized == collapse(noNewlines, WhiteSpace, 1)
    IN  trim(normalized)

Braces == {"{", "}"}

\* [^{}]*\} from position j: the position of the closing brace, 0 when
\* the text ends or another brace opens first
flatEnd(text, j) ==
    LET k == firstOf(text, Braces, j)
    IN  IF k # 0 /\ text[k] = "}" THEN k ELSE 0

RECURSIVE loopEnd(_, _)
\* (?:[^{}]|(?:\{[^{}]*\}))*\} from position j: the position of the
\* closing brace, 0 when there is no match
loopEnd(text, j) ==
    LET k == firstOf(text, Braces, j)
    IN  IF k = 0 THEN 0
        ELSE IF text[k] = "}" THEN k
        ELSE LET e == flatEnd(text, k + 1)
             IN  IF e = 0 THEN 0 ELSE loopEnd(text, e + 1)

RECURSIVE matchAll(_, _)
\* text.match(/\{(?:[^{}]|(?:\{[^{}]*\}))*\}/g): the matches that begin
\* at position i or later, in order
matchAll(text, i) ==
    LET k == firstOf(text, {"{"}, i)
        e == loopEnd(text, k + 1)
    IN  IF k = 0 THEN <<>>
        ELSE IF e = 0 THEN matchAll(text, k + 1)
        ELSE <<SubSeq(text, k, e)>> \o matchAll(text, e + 1)

\* text = jsonMatches[jsonMatches.length - 1] when there is a match
extractLast(text) ==
    LET jsonMatches == matchAll(text, 1)
    IN  IF jsonMatches # <<>> THEN jsonMatches[Len(jsonMatches)] ELSE text

\* text.match(/\{[\s\S]*\}/): from the first { to the last } after it
matchGreedy(text) ==
    LET opens == {i \in 1..Len(text) : text[i] = "{"}
        first == CHOOSE i \in opens : \A k \in opens : i <= k
        closes == {j \in 1..Len(text) : text[j] = "}" /\ j > first}
        last == CHOOSE j \in closes : \A k \in closes : k <= j
    IN  IF opens = {} \/ closes = {}
        THEN [found |-> FALSE, s |-> <<>>]
        ELSE [found |-> TRUE, s |-> SubSeq(text, first, last)]

\* ---- the response normalizer: JSON values ----
\* A value of JavaScript as JSON.parse builds it: t is its type, s the
\* characters of a string, number or boolean, keys and items the
\* members of an object in insertion order, items the elements of an
\* array.
JUndefined == [t |-> "undefined", s |-> <<>>, keys |-> <<>>, items |-> <<>>]
JNull == [t |-> "null", s |-> <<>>, keys |-> <<>>, items |-> <<>>]
JTrue == [t |-> "boolean", s |-> <<"t", "r", "u", "e">>, keys |-> <<>>,
          items |-> <<>>]
JFalse == [t |-> "boolean", s |-> <<"f", "a", "l", "s", "e">>,
           keys |-> <<>>, items |-> <<>>]
JNumber(digits) == [t |-> "number", s |-> digits, keys |-> <<>>,
                    items |-> <<>>]
JString(chars) == [t |-> "string", s |-> chars, keys |-> <<>>,
                   items |-> <<>>]
JArray(elements) == [t |-> "array", s |-> <<>>, keys |-> <<>>,
                     items |-> elements]
JObject(ks, vs) == [t |-> "object", s |-> <<>>, keys |-> ks, items |-> vs]

\* obj[key] = value on the members of an object being built: a repeated
\* key keeps its place and takes the later value
put(obj, key, value) ==
    IF \E n \in 1..Len(obj.keys) : obj.keys[n] = key
    THEN LET n == CHOOSE n \in 1..Len(obj.keys) : obj.keys[n] = key
         IN  JObject(obj.keys, [obj.items EXCEPT ![n] = value])
    ELSE JObject(Append(obj.keys, key), Append(obj.items, value))

\* the property read value.key; reading a property of null is a
\* TypeError and is decided by the caller
Get(value, key) ==
    IF value.t = "object" /\ \E n \in 1..Len(value.keys) : value.keys[n] = key
    THEN value.items[CHOOSE n \in 1..Len(value.keys) : value.keys[n] = key]
    ELSE JUndefined

\* ToBoolean
Truthy(value) ==
    CASE value.t \in {"undefined", "null"} -> FALSE
      [] value.t = "boolean" -> value = JTrue
      [] value.t = "number" -> value.s \notin {<<"0">>, <<"-", "0">>}
      [] value.t = "string" -> value.s # <<>>
      [] OTHER -> TRUE

\* ---- JSON.parse ----
JsonWs == {" ", "\n", "\t"}
Digits == {"0", "1", "2", "3", "4", "5", "6", "7", "8", "9"}
Quote == "\""
Backslash == "\\"

SyntaxError == [ok |-> FALSE, val |-> JUndefined, pos |-> 0]
Parsed(value, next) == [ok |-> TRUE, val |-> value, pos |-> next]

RECURSIVE stringBody(_, _, _)
\* the characters of a string literal from position j up to its closing
\* quote, after those of acc; a raw control character or an unknown
\* escape is an error
stringBody(text, j, acc) ==
    LET k == firstOf(text, {Quote, Backslash, "\n", "\t"}, j)
        run == acc \o SubSeq(text, j, k - 1)
    IN  IF k = 0 THEN SyntaxError
        ELSE IF text[k] = Quote THEN Parsed(JString(run), k + 1)
        ELSE IF text[k] # Backslash \/ k + 1 > Len(text) THEN SyntaxError
        ELSE IF text[k + 1] \in {Quote, Backslash, "/"}
        THEN stringBody(text, k + 2, Append(run, text[k + 1]))
        ELSE IF text[k + 1] = "n"
        THEN stringBody(text, k + 2, Append(run, "\n"))
        ELSE IF text[k + 1] = "t"
        THEN stringBody(text, k + 2, Append(run, "\t"))
        ELSE SyntaxError

parseString(text, i) ==
    IF i <= Len(text) /\ text[i] = Quote
    THEN stringBody(text, i + 1, <<>>)
    ELSE SyntaxError

\* an integer literal at position i: an optional sign, then 0 or a run
\* of digits that does not begin with 0
parseNumber(text, i) ==
    LET d == IF text[i] = "-" THEN i + 1 ELSE i
        e == skip(text, Digits, d)
    IN  IF e = d THEN SyntaxError
        ELSE IF text[d] = "0" /\ e > d + 1 THEN SyntaxError
        ELSE Parsed(JNumber(SubSeq(text, i, e - 1)), e)

RECURSIVE parseValue(_, _)
RECURSIVE parseElements(_, _, _)
RECURSIVE parseMembers(_, _, _)

\* the elements of an array from position i, after those of acc
parseElements(text, i, acc) ==
    LET v == parseValue(text, i)
        d == skip(text, JsonWs, v.pos)
    IN  IF ~v.ok \/ d > Len(text) THEN SyntaxError
        ELSE IF text[d] = "]"
        THEN Parsed(JArray(Append(acc, v.val)), d + 1)
        ELSE IF text[d] = ","
        THEN parseElements(text, d + 1, Append(acc, v.val))
        ELSE SyntaxError

\* the members of an object from position i, after those of obj
parseMembers(text, i, obj) ==
    LET k == parseString(text, skip(text, JsonWs, i))
        c == skip(text, JsonWs, k.pos)
    IN  IF ~k.ok \/ c > Len(text) THEN SyntaxError
        ELSE IF text[c] # ":" THEN SyntaxError
        ELSE LET v == parseValue(text, c + 1)
                 d == skip(text, JsonWs, v.pos)
             IN  IF ~v.ok \/ d > Len(text) THEN SyntaxError
                 ELSE IF text[d] = "}"
                 THEN Parsed(put(obj, k.val.s, v.val), d + 1)
                 ELSE IF text[d] = ","
                 THEN parseMembers(text, d + 1, put(obj, k.val.s, v.val))
                 ELSE SyntaxError

\* the value that begins at or after position i
parseValue(text, i) ==
    LET b == skip(text, JsonWs, i)
    IN  IF b > Len(text) THEN SyntaxError
        ELSE IF text[b] = "{"
        THEN LET m == skip(text, JsonWs, b + 1)
             IN  IF m <= Len(text) /\ text[m] = "}"
                 THEN Parsed(JObject(<<>>, <<>>), m + 1)
                 ELSE parseMembers(text, b + 1, JObject(<<>>, <<>>))
        ELSE IF text[b] = "["
        THEN LET m == skip(text, JsonWs, b + 1)
             IN  IF m <= Len(text) /\ text[m] = "]"
                 THEN Parsed(JArray(<<>>), m + 1)
                 ELSE parseElements(text, b + 1, <<>>)
        ELSE IF text[b] = Quote THEN parseString(text, b)
        ELSE IF text[b] \in Digits \cup {"-"} THEN parseNumber(text, b)
        ELSE IF At(text, b, JTrue.s) THEN Parsed(JTrue, b + 4)
        ELSE IF At(text, b, JFalse.s) THEN Parsed(JFalse, b + 5)
        ELSE IF At(text, b, <<"n", "u", "l", "l">>) THEN Parsed(JNull, b + 4)
        ELSE SyntaxError

\* JSON.parse(text): one value and nothing but whitespace after it
JSONparse(text) ==
    LET v == parseValue(text, 1)
    IN  IF v.ok /\ skip(text, JsonWs, v.pos) > Len(text)
        THEN [ok |-> TRUE, val |-> v.val]
        ELSE [ok |-> FALSE, val |-> JUndefined]

\* ---- JSON.stringify ----
RECURSIVE escape(_, _)
\* the characters of a string as a string literal holds them, from
\* position i on
escape(chars, i) ==
    LET k == firstOf(chars, {Quote, Backslash, "\n", "\t"}, i)
    IN  IF k = 0 THEN SubSeq(chars, i, Len(chars))
        ELSE SubSeq(chars, i, k - 1)
             \o <<Backslash, IF chars[k] = "\n" THEN "n"
                             ELSE IF chars[k] = "\t" THEN "t"
                             ELSE chars[k]>>
             \o escape(chars, k + 1)

RECURSIVE JSONstringify(_)
RECURSIVE joinElements(_, _)
RECURSIVE joinMembers(_, _, _)

joinElements(elements, n) ==
    IF n > Len(elements) THEN <<>>
    ELSE (IF n > 1 THEN <<",">> ELSE <<>>)
         \o JSONstringify(elements[n]) \o joinElements(elements, n + 1)

joinMembers(ks, vs, n) ==
    IF n > Len(ks) THEN <<>>
    ELSE (IF n > 1 THEN <<",">> ELSE <<>>)
         \o <<Quote>> \o escape(ks[n], 1) \o <<Quote, ":">>
         \o JSONstringify(vs[n]) \o joinMembers(ks, vs, n + 1)

\* JSON.stringify(value) of a value that JSON.parse built
JSONstringify(value) ==
    CASE value.t = "null" -> <<"n", "u", "l", "l">>
      [] value.t = "boolean" -> value.s
      [] value.t = "number" ->
            IF value.s = <<"-", "0">> THEN <<"0">> ELSE value.s
      [] value.t = "string" -> <<Quote>> \o escape(value.s, 1) \o <<Quote>>
      [] value.t = "array" ->
            <<"[">> \o joinElements(value.items, 1) \o <<"]">>
      [] value.t = "object" ->
            <<"{">> \o joinMembers(value.keys, value.items, 1) \o <<"}">>

\* ---- the response normalizer: literals ----
KeyType ==
    <<"t", "y", "p", "e">>

KeyContent ==
    <<"c", "o", "n", "t", "e", "n", "t">>

KeyTitle ==
    <<"t", "i", "t", "l", "e">>

KeySummary ==
    <<"s", "u", "m", "m", "a", "r", "y">>

TypeText ==
    <<"t", "e", "x", "t">>

TypeWarning ==
    <<"w", "a", "r", "n", "i", "n", "g">>

LegalAnalysis ==
    <<"L", "e", "g", "a", "l", " ", "A", "n", "a", "l", "y", "s", "i", "s">>

AnalysisOfYourQuestion ==
    <<"A", "n", "a", "l", "y", "s", "i", "s", " ", "o", "f", " ", "y", "o",
      "u", "r", " ", "l", "e", "g", "a", "l", " ", "q", "u", "e", "s", "t",
      "i", "o", "n">>

Ellipsis ==
    <<".", ".", ".">>

GeneralInformationOnly ==
    <<"T", "h", "i", "s", " ", "i", "s", " ", "g", "e", "n", "e", "r", "a",
      "l", " ", "l", "e", "g", "a", "l", " ", "i", "n", "f", "o", "r", "m",
      "a", "t", "i", "o", "n", " ", "o", "n", "l", "y", ",", " ", "n", "o",
      "t", " ", "s", "p", "e", "c", "i", "f", "i", "c", " ", "l", "e", "g",
      "a", "l", " ", "a", "d", "v", "i", "c", "e", ".", " ", "C", "o", "n",
      "s", "u", "l", "t", " ", "a", " ", "q", "u", "a", "l", "i", "f", "i",
      "e", "d", " ", "l", "a", "w", "y", "e", "r", " ", "f", "o", "r", " ",
      "y", "o", "u", "r", " ", "s", "p", "e", "c", "i", "f", "i", "c", " ",
      "s", "i", "t", "u", "a", "t", "i", "o", "n", ".">>

LegalInformation ==
    <<"L", "e", "g", "a", "l", " ", "I", "n", "f", "o", "r", "m", "a", "t",
      "i", "o", "n">>

TenantRights ==
    <<"T", "e", "n", "a", "n", "t", " ", "R", "i", "g", "h", "t", "s">>

PropertyLaw ==
    <<"P", "r", "o", "p", "e", "r", "t", "y", " ", "L", "a", "w">>

DivorceProcedure ==
    <<"D", "i", "v", "o", "r", "c", "e", " ", "P", "r", "o", "c", "e", "d",
      "u", "r", "e">>

ConsumerRights ==
    <<"C", "o", "n", "s", "u", "m", "e", "r", " ", "R", "i", "g", "h", "t",
      "s">>

FirAndPoliceRights ==
    <<"F", "I", "R", " ", "a", "n", "d", " ", "P", "o", "l", "i", "c", "e",
      " ", "R", "i", "g", "h", "t", "s">>

NeedleTenant ==
    <<"t", "e", "n", "a", "n", "t">>

NeedleProperty ==
    <<"p", "r", "o", "p", "e", "r", "t", "y">>

NeedleDivorce ==
    <<"d", "i", "v", "o", "r", "c", "e">>

NeedleConsumer ==
    <<"c", "o", "n", "s", "u", "m", "e", "r">>

NeedleFir ==
    <<"f", "i", "r">>

UpperCase ==
    <<"A", "B", "C", "D", "E", "F", "G", "H", "I", "J", "K", "L", "M", "N",
      "O", "P", "Q", "R", "S", "T", "U", "V", "W", "X", "Y", "Z">>

LowerCase ==
    <<"a", "b", "c", "d", "e", "f", "g", "h", "i", "j", "k", "l", "m", "n",
      "o", "p", "q", "r", "s", "t", "u", "v", "w", "x", "y", "z">>

\* the length to which a summary is cut
SummaryLimit == 100

\* String.prototype.toLowerCase
toLowerCase(text) ==
    [n \in 1..Len(text) |->
        IF \E k \in 1..Len(UpperCase) : UpperCase[k] = text[n]
        THEN LowerCase[CHOOSE k \in 1..Len(UpperCase) : UpperCase[k] = text[n]]
        ELSE text[n]]

\* text.substring(0, end)
substring(text, end) ==
    IF Len(text) <= end THEN text ELSE SubSeq(text, 1, end)

RECURSIVE split(_, _, _)
\* text.split(sep) for a separator of one character: the pieces from
\* position i on
split(text, sep, i) ==
    LET k == firstOf(text, {sep}, i)
    IN  IF k = 0 THEN <<SubSeq(text, i, Len(text))>>
        ELSE <<SubSeq(text, i, k - 1)>> \o split(text, sep, k + 1)

\* ---- the response normalizer: documents ----
\* { type, content }
ChatResponseItem(type, content) ==
    JObject(<<KeyType, KeyContent>>, <<JString(type), content>>)

\* { title, summary, content }
StructuredChatResponse(title, summary, content) ==
    JObject(<<KeyTitle, KeySummary, KeyContent>>, <<title, summary, content>>)

\* what a block of the normalizer does: it returns a document, throws,
\* or falls through to the statement after it
Return(doc) == [kind |-> "return", doc |-> doc, error |-> "none"]
Throw(error) == [kind |-> "throw", doc |-> JUndefined, error |-> error]
FallThrough == [kind |-> "fall", doc |-> JUndefined, error |-> "none"]
NoReturn == [kind |-> "none", doc |-> JUndefined, error |-> "none"]

\* content.substring(0, 100) + "..."
cutWithEllipsis(content) == substring(content, SummaryLimit) \o Ellipsis

\* createFallbackResponse(text, originalPrompt)
createFallbackResponse(text, originalPrompt) ==
    LET prompt == toLowerCase(originalPrompt)
        title ==
            IF includes(prompt, NeedleTenant) THEN TenantRights
            ELSE IF includes(prompt, NeedleProperty) THEN PropertyLaw
            ELSE IF includes(prompt, NeedleDivorce) THEN DivorceProcedure
            ELSE IF includes(prompt, NeedleConsumer) THEN ConsumerRights
            ELSE IF includes(prompt, NeedleFir) THEN FirAndPoliceRights
            ELSE LegalInformation
        sentences == SelectSeq(split(text, ".", 1),
                               LAMBDA s : Len(trim(s)) > 0)
        summary ==
            IF Len(sentences) > 0
            THEN substring(sentences[1], SummaryLimit)
                 \o (IF Len(sentences[1]) > SummaryLimit THEN Ellipsis
                     ELSE <<".">>)
            ELSE substring(text, SummaryLimit)
                 \o (IF Len(text) > SummaryLimit THEN Ellipsis ELSE <<>>)
    IN  StructuredChatResponse(
            JString(title), JString(summary),
            JArray(<<ChatResponseItem(TypeText, JString(text)),
                     ChatResponseItem(TypeWarning,
                                      JString(GeneralInformationOnly))>>))

\* the single-item wrap: the item's content must be a string, for it
\* is cut with substring
wrapSingleItem(chatItem, content) ==
    IF content.t # "string" THEN Throw("TypeError")
    ELSE Return(StructuredChatResponse(
             JString(LegalAnalysis),
             JString(cutWithEllipsis(content.s)),
             JArray(<<chatItem>>)))

\* the backfill of a parsed value that lacks a title, a summary or a
\* content
constructResponse(parsed, title, summary, content) ==
    Return(StructuredChatResponse(
        IF Truthy(title) THEN title ELSE JString(LegalAnalysis),
        IF Truthy(summary) THEN summary
        ELSE IF content.t = "string" THEN JString(cutWithEllipsis(content.s))
        ELSE JString(AnalysisOfYourQuestion),
        IF content.t = "array" THEN content
        ELSE JArray(<<ChatResponseItem(
                 TypeText,
                 IF content.t = "string" THEN content
                 ELSE JString(JSONstringify(parsed)))>>)))

\* the try block after JSON.parse, on the parsed value and its
\* properties type, content, title and summary; reading a property of
\* null is a TypeError
shapeParsed(parsed, type, content, title, summary) ==
    IF parsed.t = "null" THEN Throw("TypeError")
    ELSE IF /\ Truthy(type) /\ Truthy(content)
            /\ ~Truthy(title) /\ ~Truthy(summary)
    THEN wrapSingleItem(parsed, content)
    ELSE IF ~Truthy(title) \/ ~Truthy(summary) \/ ~Truthy(content)
    THEN constructResponse(parsed, title, summary, content)
    ELSE Return(parsed)

\* the try block on the result p of JSON.parse
tryParsed(p) ==
    IF ~p.ok THEN Throw("SyntaxError")
    ELSE shapeParsed(p.val, Get(p.val, KeyType), Get(p.val, KeyContent),
                     Get(p.val, KeyTitle), Get(p.val, KeySummary))

\* the try block: JSON.parse(text), then the single-item wrap, the
\* backfill of an incomplete document, or the document as parsed
tryBlock(text) == tryParsed(JSONparse(text))

\* the try block inside the catch block after JSON.parse, on the parsed
\* value and its properties
shapeExtracted(parsed, type, content, title, summary) ==
    IF parsed.t = "null" THEN Throw("TypeError")
    ELSE IF Truthy(title) /\ Truthy(summary) /\ Truthy(content)
    THEN Return(parsed)
    ELSE IF Truthy(type) /\ Truthy(content)
    THEN wrapSingleItem(parsed, content)
    ELSE FallThrough

\* the try block inside the catch block on the result p of JSON.parse
tryExtracted(p) ==
    IF ~p.ok THEN Throw("SyntaxError")
    ELSE shapeExtracted(p.val, Get(p.val, KeyType), Get(p.val, KeyContent),
                        Get(p.val, KeyTitle), Get(p.val, KeySummary))

\* the try block inside the catch block, on the greedy match
innerTry(matched) == tryExtracted(JSONparse(matched))

catchExtractError_rethrows(r) == r

\* catch (extractError): the error is logged and the block left
catchExtractError(r) == IF r.kind = "throw" THEN FallThrough ELSE r

\* if (jsonMatch) { try ... catch (extractError) ... }
extractFromMatch(jsonMatch) ==
    IF jsonMatch.found THEN catchExtractError(innerTry(jsonMatch.s))
    ELSE FallThrough

\* the end of the catch block: what the extraction returned, else the
\* plain-text fallback
orFallback(r, text, prompt) ==
    IF r.kind = "fall" THEN Return(createFallbackResponse(text, prompt))
    ELSE r

\* the catch block: the greedy extraction, then the plain-text fallback
catchParseError(text, prompt) ==
    orFallback(extractFromMatch(matchGreedy(text)), text, prompt)

\* the value of the latest JSON.parse that succeeded
latestParsed(p, before) == IF p.ok THEN p.val ELSE before

\* the value parsed in the catch block, if any
parsedInCatch(jsonMatch, before) ==
    IF jsonMatch.found THEN latestParsed(JSONparse(jsonMatch.s), before)
    ELSE before

\* ---- the response normalizer: backend texts and prompts ----
\* nesting depth of the objects the backend texts hold
MaxNest == 3

\* n times the character c
Repeat(c, n) == [k \in 1..n |-> c]

\* field values of a document
Plain ==
    <<"a", "b", " ", "c">>

WithHash ==
    <<"a", " ", "#", "1">>

WithBold ==
    <<"*", "*", "a", "*", "*", " ", "b">>

WithSpaces ==
    <<"a", " ", " ", "b">>

WithBraces ==
    <<"a", " ", "{", "b", "}", " ", "c">>

WithOpenBrace ==
    <<"a", " ", "{", " ", "b">>

Sentences ==
    <<"A", "s", "k", " ", "a", " ", "l", "a", "w", "y", "e", "r", ".", " ",
      "K", "e", "e", "p", " ", "t", "h", "e", " ", "r", "e", "c", "e", "i",
      "p", "t", ".">>

FieldValues ==
    {Plain, WithHash, WithBold, WithSpaces, WithBraces, WithOpenBrace}

\* contents around the length at which a summary is cut
ItemContents ==
    FieldValues \cup {Sentences, Repeat("a", SummaryLimit),
                      Repeat("a", SummaryLimit + 1)}

\* prose around a JSON text
HereIsTheAnswer ==
    <<"H", "e", "r", "e", " ", "i", "s", " ", "t", "h", "e", " ", "a", "n",
      "s", "w", "e", "r", ":", " ">>

HopeThisHelps ==
    <<" ", "H", "o", "p", "e", " ", "t", "h", "i", "s", " ", "h", "e", "l",
      "p", "s", ".">>

\* texts that are not JSON
NotJson ==
    <<"H", "e", "l", "l", "o", " ", "{", "n", "o", "t", " ", "j", "s", "o",
      "n", "}", " ", "b", "y", "e">>

Heading ==
    <<"#", "#", " ", "Y", "o", "u", "r", " ", "r", "i", "g", "h", "t", "s",
      "\n", "\n", "A", "s", "k", " ", "a", " ", "l", "a", "w", "y", "e",
      "r", ".">>

Unbalanced ==
    <<"{", "\"", "t", "i", "t", "l", "e", "\"", ":", " ", "\"", "a", "\"">>

ClosedFirst ==
    <<"}", " ", "t", "h", "e", "n", " ", "{">>

Blank ==
    <<" ", "\n", " ">>

\* the key of a nested object
KeyA ==
    <<"a">>

\* prompts of the user
PromptTenant ==
    <<"M", "y", " ", "T", "e", "n", "a", "n", "t", " ", "r", "i", "g", "h",
      "t", "s", "?">>

PromptProperty ==
    <<"p", "r", "o", "p", "e", "r", "t", "y", " ", "d", "i", "s", "p", "u",
      "t", "e">>

PromptDivorce ==
    <<"H", "o", "w", " ", "t", "o", " ", "D", "I", "V", "O", "R", "C", "E">>

PromptConsumer ==
    <<"c", "o", "n", "s", "u", "m", "e", "r", " ", "c", "o", "u", "r", "t">>

PromptFir ==
    <<"F", "i", "l", "e", " ", "a", "n", " ", "F", "I", "R">>

PromptOther ==
    <<"h", "e", "l", "l", "o">>

Prompts ==
    {PromptTenant, PromptProperty, PromptDivorce, PromptConsumer, PromptFir,
     PromptOther}

\* a text item
TextItem(content) == ChatResponseItem(TypeText, JString(content))

\* well-formed documents with one text item
Documents ==
    {StructuredChatResponse(JString(a), JString(b), JArray(<<TextItem(c)>>)) :
        a \in FieldValues, b \in {Plain, WithHash}, c \in {Plain, WithBraces}}

\* bare items, with contents that are strings and contents that are not
BareItems ==
    {TextItem(c) : c \in ItemContents}
        \cup {ChatResponseItem(TypeText, v) :
                v \in {JNumber(<<"5">>), JTrue, JArray(<<JString(Plain)>>)}}

\* objects that lack a part of a document
Incomplete ==
    {JObject(<<KeyTitle>>, <<JString(Plain)>>),
     JObject(<<KeySummary, KeyContent>>, <<JString(Plain), JString(Plain)>>),
     JObject(<<KeyContent>>, <<JString(Repeat("a", SummaryLimit + 1))>>),
     JObject(<<KeyTitle, KeySummary, KeyContent>>,
             <<JString(<<>>), JString(<<>>), JArray(<<>>)>>),
     JObject(<<KeyTitle, KeyContent>>, <<JNumber(<<"7">>), JNull>>),
     JObject(<<>>, <<>>)}

\* values that are not objects
Primitives ==
    {JNull, JTrue, JFalse, JNumber(<<"5">>), JNumber(<<"0">>), JString(Plain),
     JString(<<>>), JArray(<<JNumber(<<"1">>)>>), JArray(<<>>)}

RECURSIVE Nest(_, _)
\* value wrapped in d objects: {"a":{"a": ... value}}
Nest(value, d) ==
    IF d = 0 THEN value ELSE JObject(<<KeyA>>, <<Nest(value, d - 1)>>)

Nested ==
    {Nest(JNumber(<<"1">>), d) : d \in 1..MaxNest}
        \cup {StructuredChatResponse(
                  JString(Plain), JString(Plain),
                  JArray(<<put(TextItem(Plain), KeyA,
                               Nest(JNumber(<<"1">>), d))>>)) :
                d \in 0..(MaxNest - 2)}

Values == Documents \cup BareItems \cup Incomplete \cup Primitives \cup Nested

\* JSON texts as the backend writes them: compact, between prose, in a
\* code fence, and after an earlier JSON object
JsonTexts ==
    {JSONstringify(v) : v \in Values}
        \cup {HereIsTheAnswer \o JSONstringify(v) \o HopeThisHelps :
                v \in BareItems \cup Nested}
        \cup {Fence \o <<"j", "s", "o", "n", "\n">> \o JSONstringify(v)
                  \o <<"\n">> \o Fence :
                v \in Incomplete \cup Nested}
        \cup {JSONstringify(TextItem(Plain)) \o <<" ">> \o JSONstringify(v) :
                v \in Nested}

\* texts that hold no JSON value
PlainTexts ==
    {<<>>, Blank, Sentences, NotJson, Heading, Unbalanced, ClosedFirst,
     Repeat("a", SummaryLimit), Repeat("a", SummaryLimit + 1),
     Repeat("a", SummaryLimit + 1) \o <<".">> \o Plain}

RawTexts == JsonTexts \cup PlainTexts

\* ---- RateLimiter ----
canMakeRequest_keepsRecent(reqs, last, t) ==
    IF t - last < minInterval
    THEN [ret |-> FALSE, requests |-> reqs]
    ELSE LET kept == SelectSeq(reqs, LAMBDA time : t - time < minInterval)
         IN  [ret |-> Len(kept) < maxRequestsPerMinute, requests |-> kept]

canMakeRequest_offByOne(reqs, last, t) ==
    IF t - last < minInterval
    THEN [ret |-> FALSE, requests |-> reqs]
    ELSE LET kept == SelectSeq(reqs, LAMBDA time : t - time < timeWindow)
         IN  [ret |-> Len(kept) <= maxRequestsPerMinute, requests |-> kept]

canMakeRequest_noPrune(reqs, last, t) ==
    IF t - last < minInterval
    THEN [ret |-> FALSE, requests |-> reqs]
    ELSE [ret |-> Len(reqs) < maxRequestsPerMinute, requests |-> reqs]

canMakeRequest_noSpacing(reqs, last, t) ==
    LET kept == SelectSeq(reqs, LAMBDA time : t - time < timeWindow)
    IN  [ret |-> Len(kept) < maxRequestsPerMinute, requests |-> kept]

canMakeRequest_invertedFilter(reqs, last, t) ==
    IF t - last < minInterval
    THEN [ret |-> FALSE, requests |-> reqs]
    ELSE LET kept == SelectSeq(reqs, LAMBDA time : t - time >= timeWindow)
         IN  [ret |-> Len(kept) < maxRequestsPerMinute, requests |-> kept]

\* canMakeRequest(): its return value and the requests array it leaves
canMakeRequest(reqs, last, t) ==
    IF t - last < minInterval
    THEN [ret |-> FALSE, requests |-> reqs]
    ELSE LET kept == SelectSeq(reqs, LAMBDA time : t - time < timeWindow)
         IN  [ret |-> Len(kept) < maxRequestsPerMinute, requests |-> kept]

recordRequest_noPush(reqs, t) ==
    [requests |-> reqs, lastRequestTime |-> t]

\* recordRequest(): the requests array and lastRequestTime it leaves
recordRequest(reqs, t) ==
    [requests |-> Append(reqs, t), lastRequestTime |-> t]

\* getTimeUntilNextRequest(): reads the array as it is, without pruning
getTimeUntilNextRequest(reqs, last, t) ==
    LET timeSinceLastRequest == t - last IN
    IF timeSinceLastRequest < minInterval
    THEN minInterval - timeSinceLastRequest
    ELSE IF Len(reqs) >= maxRequestsPerMinute
         THEN timeWindow - (t - MinOf(reqs))
         ELSE 0

\* ---- backend targets, replies and errors ----
flashModel == "flashModel"
proModel == "proModel"
chatSession == "chat"

Msg429 == <<"E", "4", "2", "9">>
MsgQuota == <<"q", "u", "o", "t", "a", "!">>
MsgNetwork == <<"n", "e", "t">>
\* messages of the errors a backend call may reject with
BackendMessages == {Msg429, MsgQuota, MsgNetwork}

Needle429 == <<"4", "2", "9">>
NeedleQuota == <<"q", "u", "o", "t", "a">>

\* a backend call resolves with text or rejects with an Error
Replies == {[ok |-> TRUE, message |-> <<>>]}
           \cup {[ok |-> FALSE, message |-> m] : m \in BackendMessages}

\* error.message?.includes('429') || error.message?.includes('quota')
isQuotaError(message) ==
    includes(message, Needle429) \/ includes(message, NeedleQuota)

models_flashAlwaysFirst(useFlashFirst) == <<flashModel, proModel>>

models_thirdTry(useFlashFirst) == <<flashModel, proModel, flashModel>>

\* const models = useFlashFirst ? [flashModel, proModel] : [proModel, flashModel]
models(useFlashFirst) ==
    IF useFlashFirst THEN <<flashModel, proModel>>
    ELSE <<proModel, flashModel>>

catchDecision_alwaysContinue(message) == "continue"

\* the catch block of the loop: continue to the next model, or rethrow
catchDecision(message) ==
    IF isQuotaError(message) THEN "continue" ELSE "throw"

NoOutcome == [kind |-> "none"]
RateLimitedError(wait) ==
    [kind |-> "RateLimited", wait |-> wait, seconds |-> CeilDiv(wait, Second)]
AllBackendsExhausted == [kind |-> "AllBackendsExhausted"]
BackendError(target, message) ==
    [kind |-> "BackendError", from |-> target, message |-> message]
Result(target) == [kind |-> "result", from |-> target]

afterLoop_rethrowLast(target, message) == BackendError(target, message)

\* after the loop: the distinct exhaustion error, or the last error
afterLoop(target, message) ==
    IF isQuotaError(message) THEN AllBackendsExhausted
    ELSE BackendError(target, message)

IdleSend ==
    [pc |-> "idle", fn |-> "none", useFlashFirst |-> TRUE,
     invoked |-> <<>>, recorded |-> 0, replies |-> <<>>,
     outcome |-> NoOutcome]

\* a send that is not running
IdleLoop == [fn |-> "none", at |-> "idle", attempt |-> 0]

\* the page has loaded: rateLimiter is constructed and nothing is in flight
InitGovernor ==
    /\ now = Epoch
    /\ requests = <<>>
    /\ lastRequestTime = 0
    /\ sends = [s \in Slots |-> IdleSend]
    /\ settled = IdleSend
    /\ admissions = <<>>
    /\ rateLimitCountdown = 0
    /\ turn = 0
    /\ lpc = [s \in Slots |-> IdleLoop]
    /\ lastGov = "none"

\* ---- parseLegalResponse ----
\* The document is held as it lies in memory. A local variable of
\* parseLegalResponse that holds an array holds a reference: to the items
\* array of the k-th content item of the document (at = k), or to an array
\* that the function created itself (at = 0, the array is own).

\* content items handed to parseLegalResponse at most
MaxItems == 3

\* titles of list items
KeyIssuesTitle ==
    <<"K", "e", "y", " ", "I", "s", "s", "u", "e", "s">>

RecommendedActionsTitle ==
    <<"R", "e", "c", "o", "m", "m", "e", "n", "d", "e", "d", " ", "A", "c",
      "t", "i", "o", "n", "s">>

PotentialRisksTitle ==
    <<"P", "o", "t", "e", "n", "t", "i", "a", "l", " ", "R", "i", "s", "k",
      "s">>

NextStepsTitle ==
    <<"N", "e", "x", "t", " ", "S", "t", "e", "p", "s">>

WhatComesNextTitle ==
    <<"W", "h", "a", "t", " ", "C", "o", "m", "e", "s", " ", "N", "e", "x",
      "t">>

\* the words parseLegalResponse looks for in a title
NeedleIssue ==
    <<"i", "s", "s", "u", "e">>

NeedleAction ==
    <<"a", "c", "t", "i", "o", "n">>

NeedleStep ==
    <<"s", "t", "e", "p">>

NeedleRisk ==
    <<"r", "i", "s", "k">>

NeedleNext ==
    <<"n", "e", "x", "t">>

\* the defaults of the four lists
KeyIssuesDefault == <<"Legal analysis requires more specific case details">>

RecommendedActionsDefault ==
    <<"Consult with a qualified lawyer for detailed guidance">>

NextStepsDefault ==
    <<"Gather relevant documents", "Consult with a lawyer",
      "Consider alternative dispute resolution">>

PotentialRisksDefault == <<"Risk assessment requires detailed case review">>

EstimatedCosts == "Consult with a lawyer for cost estimates"

Timeline == "Timeline depends on case complexity"

\* a reference to an array that the function created
own(array) == [at |-> 0, own |-> array]

\* a reference to the items array of the k-th content item
itemsOf(k) == [at |-> k, own |-> <<>>]

\* the array that a reference points to in the memory doc
array(doc, ref) ==
    IF ref.at = 0 THEN ref.own ELSE doc.content[ref.at].items

\* item.items || []
itemsOrEmpty(item, k) ==
    IF "items" \in DOMAIN item THEN itemsOf(k) ELSE own(<<>>)

\* item.title?.toLowerCase().includes(needle)
titleIncludes(item, needle) ==
    /\ "title" \in DOMAIN item
    /\ includes(toLowerCase(item.title), needle)

\* the local variable that the branches of case "list" assign
listBranch(item) ==
    IF titleIncludes(item, NeedleIssue) THEN "keyIssues"
    ELSE IF titleIncludes(item, NeedleAction)
            \/ titleIncludes(item, NeedleStep)
         THEN "recommendedActions"
    ELSE IF titleIncludes(item, NeedleRisk) THEN "potentialRisks"
    ELSE IF titleIncludes(item, NeedleNext) THEN "nextSteps"
    ELSE "recommendedActions"

\* the local variables of parseLegalResponse before the loop
Locals ==
    [legalAssessment |-> "",
     keyIssues |-> own(<<>>),
     recommendedActions |-> own(<<>>),
     potentialRisks |-> own(<<>>),
     nextSteps |-> own(<<>>)]

\* recommendedActions.push(value): the array the variable refers to grows,
\* wherever it lies
push(m, value) ==
    LET ref == m.l.recommendedActions IN
    IF ref.at = 0
    THEN [m EXCEPT !.l.recommendedActions.own = Append(@, value)]
    ELSE [m EXCEPT !.doc.content[ref.at].items = Append(@, value)]

\* the callback of response.content.forEach on the k-th item; m holds the
\* memory (doc) and the local variables (l)
switch(m, k) ==
    LET item == m.doc.content[k] IN
    CASE item.type = "text" ->
            IF m.l.legalAssessment = ""
            THEN [m EXCEPT !.l.legalAssessment = item.content]
            ELSE m
      [] item.type = "list" ->
            [m EXCEPT !.l[listBranch(item)] = itemsOrEmpty(item, k)]
      [] item.type = "suggestion" -> push(m, item.content)
      [] OTHER -> m

RECURSIVE forEach(_, _)
\* response.content.forEach(...) from the k-th item on
forEach(m, k) ==
    IF k > Len(m.doc.content) THEN m ELSE forEach(switch(m, k), k + 1)

whenEmpty_keepsEmpty(doc, ref, default) == ref

\* if (xs.length === 0) xs = [...]: the variable is given a new array
whenEmpty(doc, ref, default) ==
    IF Len(array(doc, ref)) = 0 THEN own(default) ELSE ref

\* the defaults and the return statement, after the loop left m
returnAnalysis(m) ==
    [doc |-> m.doc,
     ret |-> [title |-> m.doc.title,
              summary |-> m.doc.summary,
              legalAssessment |-> m.l.legalAssessment,
              keyIssues |-> whenEmpty(m.doc, m.l.keyIssues, KeyIssuesDefault),
              recommendedActions |->
                  whenEmpty(m.doc, m.l.recommendedActions,
                            RecommendedActionsDefault),
              potentialRisks |->
                  whenEmpty(m.doc, m.l.potentialRisks, PotentialRisksDefault),
              estimatedCosts |-> EstimatedCosts,
              timeline |-> Timeline,
              nextSteps |-> whenEmpty(m.doc, m.l.nextSteps, NextStepsDefault)]]

\* parseLegalResponse(response): the memory it leaves and what it returns
parseLegalResponse(doc) ==
    returnAnalysis(forEach([doc |-> doc, l |-> Locals], 1))

\* content items of the documents handed in
textOf(content) == [type |-> "text", content |-> content]

listOf(title, items) ==
    [type |-> "list", content |-> "", title |-> title, items |-> items]

listWithoutItems(title) == [type |-> "list", content |-> "", title |-> title]

listWithoutTitle(items) == [type |-> "list", content |-> "", items |-> items]

suggestionOf(content) == [type |-> "suggestion", content |-> content]

warningOf(content) == [type |-> "warning", content |-> content]

ContentItems ==
    {textOf("The tenancy is protected."),
     listOf(KeyIssuesTitle, <<"Notice period">>),
     listOf(RecommendedActionsTitle, <<"Send a legal notice">>),
     listOf(PotentialRisksTitle, <<"Limitation">>),
     listOf(NextStepsTitle, <<"File the complaint">>),
     listOf(WhatComesNextTitle, <<"Hearing">>),
     listOf(RecommendedActionsTitle, <<>>),
     listWithoutItems(KeyIssuesTitle),
     listWithoutTitle(<<"Keep the receipts">>),
     suggestionOf("Talk to a lawyer"),
     warningOf("Not legal advice")}

RECURSIVE Contents(_)
\* the content arrays of n items
Contents(n) ==
    IF n = 0 THEN {<<>>}
    ELSE {Append(c, item) : c \in Contents(n - 1), item \in ContentItems}

\* the documents handed to parseLegalResponse
Responses ==
    {[title |-> "Tenant Rights", summary |-> "Deposit dispute",
      content |-> c] : c \in UNION {Contents(n) : n \in 0..MaxItems}}

\* no document has been analysed
NoAnalysis == [title |-> ""]

CaseIdle ==
    /\ response = [title |-> "", summary |-> "", content |-> <<>>]
    /\ received = response
    /\ analysis = NoAnalysis

\* ---- the components ----
\* App shows the welcome screen, then one of CaseAnalysis and ChatInterface
\* at a time; both talk to the one rateLimiter of the module.

\* the fields of the form of CaseAnalysis
Fields == {"caseType", "location", "caseDescription", "specificQuestion"}

\* what the user may enter in a field
Entries == {"", "Property Case"}

\* what the user may type in the chat input
Question ==
    <<"B", "a", "i", "l", "?">>

InputTexts == {<<>>, <<" ">>, Question}

\* the words ChatInterface looks for in an error message
NeedleRateLimit ==
    <<"R", "a", "t", "e", " ", "l", "i", "m", "i", "t">>

\* useState({caseType: "", location: "", ...})
EmptyForm == [name \in Fields |-> ""]

\* useState<string | null>(null)
NoError == [kind |-> "null"]

\* no message has been added to the chat
NoMessage == [type |-> "none"]

\* the handler awaits no response
NoPending == [attempt |-> 0]

\* the page has loaded: the welcome screen shows and no component is mounted
ComponentsIdle ==
    /\ showWelcome = TRUE
    /\ activeComponent = "caseAnalysis"
    /\ formData = EmptyForm
    /\ input = <<>>
    /\ isAnalyzing = FALSE
    /\ isLoading = FALSE
    /\ errorShown = NoError
    /\ lastMessage = NoMessage
    /\ pending = NoPending
    /\ polledAt = 0

\* no backend reply is being normalized
NormIdle ==
    /\ nraw = <<>>
    /\ nprompt = <<>>
    /\ npc = "off"
    /\ ntext = <<>>
    /\ nparsed = JUndefined
    /\ nout = NoReturn

Init == InitGovernor /\ NormIdle /\ CaseIdle /\ ComponentsIdle

\* the timestamps that a governor update pushed onto the array reqs
Pushed(reqs, after) == SubSeq(after, Len(reqs) + 1, Len(after))

\* one pass of the loop body up to the await: recordRequest(), then
\* requestFn(model) begins its backend call
Attempt(s, sd, reqs, target) ==
    LET r == recordRequest(reqs, now) IN
    /\ requests' = r.requests
    /\ lastRequestTime' = r.lastRequestTime
    /\ admissions' = admissions \o Pushed(reqs, r.requests)
    /\ sends' = [sends EXCEPT ![s] =
                    [sd EXCEPT !.pc = "awaiting",
                               !.invoked = Append(sd.invoked, target),
                               !.recorded = sd.recorded
                                            + Len(Pushed(reqs, r.requests))]]

\* the pre-flight check of both senders failed: throw the local error
Reject(sd, c) ==
    LET waitTime == getTimeUntilNextRequest(c.requests, lastRequestTime, now)
    IN
    /\ requests' = c.requests
    /\ settled' = [sd EXCEPT !.pc = "done",
                             !.outcome = RateLimitedError(waitTime)]
    /\ UNCHANGED <<lastRequestTime, admissions, sends>>

\* a new send takes the first free slot of the event loop
FreeSlot(s) ==
    /\ sends[s].pc = "idle"
    /\ \A q \in Slots : q < s => sends[q].pc # "idle"

\* makeAPIRequestWithFallback(requestFn, useFlashFirst) up to its first await
MakeAPIRequestWithFallback(s, useFlashFirst) ==
    /\ FreeSlot(s)
    /\ LET c == canMakeRequest(requests, lastRequestTime, now)
           sd == [IdleSend EXCEPT !.fn = "api",
                                  !.useFlashFirst = useFlashFirst]
       IN  IF ~c.ret
           THEN Reject(sd, c)
           ELSE Attempt(s, sd, c.requests, models(useFlashFirst)[1])
                /\ UNCHANGED settled
    /\ UNCHANGED <<now, rateLimitCountdown, loopVars, normVars, componentVars>>

\* sendChatMessage(chat, message) up to its await
SendChatMessage(s) ==
    /\ FreeSlot(s)
    /\ LET c == canMakeRequest(requests, lastRequestTime, now)
           sd == [IdleSend EXCEPT !.fn = "chat"]
       IN  IF ~c.ret
           THEN Reject(sd, c)
           ELSE Attempt(s, sd, c.requests, chatSession)
                /\ UNCHANGED settled
    /\ UNCHANGED <<now, rateLimitCountdown, loopVars, normVars, componentVars>>

\* the send settles: its promise resolves or rejects with outcome o
Settle(s, sd, o) ==
    /\ settled' = [sd EXCEPT !.pc = "done", !.outcome = o]
    /\ sends' = [sends EXCEPT ![s] = IdleSend]
    /\ UNCHANGED <<requests, lastRequestTime, admissions>>

\* the awaited backend call of a dispatcher send returns or raises
BackendReplyAPI(s, reply) ==
    /\ sends[s].pc = "awaiting"
    /\ sends[s].fn = "api"
    /\ LET sd == [sends[s] EXCEPT !.replies = Append(@, reply)]
           i == Len(sends[s].invoked)
           ms == models(sends[s].useFlashFirst)
       IN  IF reply.ok
           THEN Settle(s, sd, Result(ms[i]))
           ELSE IF catchDecision(reply.message) = "continue"
                THEN IF i < Len(ms)
                     THEN Attempt(s, sd, requests, ms[i + 1])
                          /\ UNCHANGED settled
                     ELSE Settle(s, sd, afterLoop(ms[i], reply.message))
                ELSE Settle(s, sd, BackendError(ms[i], reply.message))
    /\ UNCHANGED <<now, rateLimitCountdown, loopVars, normVars, componentVars>>

\* the awaited chat.sendMessage of sendChatMessage returns or raises
BackendReplyChat(s, reply) ==
    /\ sends[s].pc = "awaiting"
    /\ sends[s].fn = "chat"
    /\ LET sd == [sends[s] EXCEPT !.replies = Append(@, reply)]
       IN  IF reply.ok
           THEN Settle(s, sd, Result(chatSession))
           ELSE Settle(s, sd, BackendError(chatSession, reply.message))
    /\ UNCHANGED <<now, rateLimitCountdown, loopVars, normVars, componentVars>>

\* checkRateLimit, the callback of setInterval(checkRateLimit, 1000)
CheckRateLimit ==
    /\ LET c == canMakeRequest(requests, lastRequestTime, now) IN
        /\ requests' = c.requests
        /\ rateLimitCountdown' =
              IF ~c.ret
              THEN CeilDiv(getTimeUntilNextRequest(c.requests,
                                                   lastRequestTime, now),
                           Second)
              ELSE 0
    /\ UNCHANGED <<now, lastRequestTime, sends, settled, admissions,
                   loopVars, normVars, componentVars>>

\* the clock advances
Tick ==
    /\ now < Epoch + MaxTicks
    /\ now' = now + 1
    /\ admissions' = SelectSeq(admissions, LAMBDA t : now' - t < timeWindow)
    /\ UNCHANGED <<requests, lastRequestTime, sends, settled,
                   rateLimitCountdown, loopVars, normVars, componentVars>>

Next ==
    \/ Tick
    \/ \E s \in Slots, f \in BOOLEAN : MakeAPIRequestWithFallback(s, f)
    \/ \E s \in Slots : SendChatMessage(s)
    \/ \E s \in Slots, r \in Replies : BackendReplyAPI(s, r)
    \/ \E s \in Slots, r \in Replies : BackendReplyChat(s, r)
    \/ CheckRateLimit

Spec == Init /\ [][Next]_vars

\* the sends alone, without the poll of the components
NextSend ==
    \/ Tick
    \/ \E s \in Slots, f \in BOOLEAN : MakeAPIRequestWithFallback(s, f)
    \/ \E s \in Slots : SendChatMessage(s)
    \/ \E s \in Slots, r \in Replies : BackendReplyAPI(s, r)
    \/ \E s \in Slots, r \in Replies : BackendReplyChat(s, r)

\* every backend call returns or raises: the call a send awaits settles
BackendAnswers(s) ==
    WF_vars(\E r \in Replies : BackendReplyAPI(s, r) \/ BackendReplyChat(s, r))

\* the sends when no backend call hangs
SpecSend == Init /\ [][NextSend]_vars /\ \A s \in Slots : BackendAnswers(s)

\* ---- the senders statement by statement ----
\* The same two functions with one action per statement, to show which
\* statements of different sends can interleave on the event loop.

yields_afterCheck(at) == at \in {"check", "invoke"}

\* a send gives the event loop back only at its await: after it has
\* called requestFn(model), never between the check and the record
yields(at) == at = "invoke"

\* who runs after send s has executed the statement at
AfterStatement(s, at) == IF yields(at) THEN 0 ELSE s

\* send s may execute its next statement: it holds the turn, or the loop
\* is free to resume it
Scheduled(s) == turn = s \/ turn = 0

\* an event handler calls makeAPIRequestWithFallback or sendChatMessage
LoopCall(s, fn) ==
    /\ turn = 0
    /\ lpc[s].at = "idle"
    /\ \A q \in Slots : q < s => lpc[q].at # "idle"
    /\ lpc' = [lpc EXCEPT ![s] = [fn |-> fn, at |-> "check", attempt |-> 0]]
    /\ turn' = s
    /\ UNCHANGED <<now, requests, lastRequestTime, lastGov, sendVars,
                   normVars, componentVars>>

\* if (!rateLimiter.canMakeRequest()) throw ...
LoopCheck(s) ==
    /\ Scheduled(s)
    /\ lpc[s].at = "check"
    /\ LET c == canMakeRequest(requests, lastRequestTime, now) IN
        /\ requests' = c.requests
        /\ lastGov' = IF c.ret THEN "check_true" ELSE "check_false"
        /\ IF c.ret
           THEN /\ lpc' = [lpc EXCEPT ![s].at = "record", ![s].attempt = 1]
                /\ turn' = AfterStatement(s, "check")
           ELSE /\ lpc' = [lpc EXCEPT ![s] = IdleLoop]
                /\ turn' = 0
    /\ UNCHANGED <<now, lastRequestTime, sendVars, normVars, componentVars>>

\* rateLimiter.recordRequest()
LoopRecord(s) ==
    /\ Scheduled(s)
    /\ lpc[s].at = "record"
    /\ LET r == recordRequest(requests, now) IN
        /\ requests' = r.requests
        /\ lastRequestTime' = r.lastRequestTime
    /\ lastGov' = "record"
    /\ lpc' = [lpc EXCEPT ![s].at = "invoke"]
    /\ turn' = AfterStatement(s, "record")
    /\ UNCHANGED <<now, sendVars, normVars, componentVars>>

\* await requestFn(model): the backend call begins and the send suspends
LoopInvoke(s) ==
    /\ Scheduled(s)
    /\ lpc[s].at = "invoke"
    /\ lpc' = [lpc EXCEPT ![s].at = "await"]
    /\ turn' = AfterStatement(s, "invoke")
    /\ UNCHANGED <<now, requests, lastRequestTime, lastGov, sendVars,
                   normVars, componentVars>>

\* the backend call settles and the send runs on: return, rethrow, or
\* continue the loop with the next model
LoopResume(s, reply) ==
    /\ turn = 0
    /\ lpc[s].at = "await"
    /\ IF /\ lpc[s].fn = "api"
          /\ ~reply.ok
          /\ catchDecision(reply.message) = "continue"
          /\ lpc[s].attempt < Len(models(TRUE))
       THEN /\ lpc' = [lpc EXCEPT ![s].at = "record",
                                  ![s].attempt = lpc[s].attempt + 1]
            /\ turn' = s
       ELSE /\ lpc' = [lpc EXCEPT ![s] = IdleLoop]
            /\ turn' = 0
    /\ UNCHANGED <<now, requests, lastRequestTime, lastGov, sendVars,
                   normVars, componentVars>>

\* the clock advances
LoopTick ==
    /\ now < Epoch + MaxTicks
    /\ now' = now + 1
    /\ UNCHANGED <<requests, lastRequestTime, loopVars, sendVars, normVars,
                   componentVars>>

NextLoop ==
    \/ LoopTick
    \/ \E s \in Slots, fn \in {"api", "chat"} : LoopCall(s, fn)
    \/ \E s \in Slots : LoopCheck(s)
    \/ \E s \in Slots : LoopRecord(s)
    \/ \E s \in Slots : LoopInvoke(s)
    \/ \E s \in Slots, r \in Replies : LoopResume(s, r)

SpecLoop == Init /\ [][NextLoop]_vars

\* ---- the request function of getStructuredChatResponse ----
\* One action per block of the function, from the backend's reply to the
\* value the function returns.

\* getStructuredChatResponse(prompt): the request is sent
GetStructuredChatResponse(prompt) ==
    /\ npc = "off"
    /\ nprompt' = prompt
    /\ npc' = "awaiting"
    /\ UNCHANGED <<nraw, ntext, nparsed, nout>>
    /\ UNCHANGED <<now, requests, lastRequestTime, sendVars, loopVars,
                   componentVars>>

\* let text = (await response.text()).trim()
ResponseText(raw) ==
    /\ npc = "awaiting"
    /\ nraw' = raw
    /\ ntext' = trim(raw)
    /\ npc' = "text"
    /\ UNCHANGED <<nprompt, nparsed, nout>>
    /\ UNCHANGED <<now, requests, lastRequestTime, sendVars, loopVars,
                   componentVars>>

\* text = text.replace(...) ... .trim()
CleanUp ==
    /\ npc = "text"
    /\ ntext' = cleanUp(ntext)
    /\ npc' = "clean"
    /\ UNCHANGED <<nraw, nprompt, nparsed, nout>>
    /\ UNCHANGED <<now, requests, lastRequestTime, sendVars, loopVars,
                   componentVars>>

\* const jsonMatches = text.match(...); if (jsonMatches) text = the last
ExtractLast ==
    /\ npc = "clean"
    /\ ntext' = extractLast(ntext)
    /\ npc' = "extracted"
    /\ UNCHANGED <<nraw, nprompt, nparsed, nout>>
    /\ UNCHANGED <<now, requests, lastRequestTime, sendVars, loopVars,
                   componentVars>>

\* try { ... }: the function returns, or control passes to the catch
TryParse ==
    /\ npc = "extracted"
    /\ nparsed' = latestParsed(JSONparse(ntext), JUndefined)
    /\ nout' = tryBlock(ntext)
    /\ npc' = IF nout'.kind = "throw" THEN "catch" ELSE "done"
    /\ UNCHANGED <<nraw, nprompt, ntext>>
    /\ UNCHANGED <<now, requests, lastRequestTime, sendVars, loopVars,
                   componentVars>>

\* catch (parseError) { ... }: the function returns or throws
CatchParseError ==
    /\ npc = "catch"
    /\ nparsed' = parsedInCatch(matchGreedy(ntext), nparsed)
    /\ nout' = catchParseError(ntext, nprompt)
    /\ npc' = "done"
    /\ UNCHANGED <<nraw, nprompt, ntext>>
    /\ UNCHANGED <<now, requests, lastRequestTime, sendVars, loopVars,
                   componentVars>>

NextNorm ==
    \/ \E prompt \in Prompts : GetStructuredChatResponse(prompt)
    \/ \E raw \in RawTexts : ResponseText(raw)
    \/ CleanUp
    \/ ExtractLast
    \/ TryParse
    \/ CatchParseError

SpecNorm == Init /\ [][NextNorm]_vars

\* ---- the analysis of a case ----
\* const analysisResult = parseLegalResponse(response) on a document that
\* getStructuredChatResponse returned
ParseLegalResponse ==
    /\ analysis = NoAnalysis
    /\ \E doc \in Responses :
          LET p == parseLegalResponse(doc) IN
          /\ received' = doc
          /\ response' = p.doc
          /\ analysis' = p.ret
    /\ UNCHANGED <<now, requests, lastRequestTime, sendVars, loopVars,
                   normVars, showWelcome, activeComponent, formData, input,
                   isAnalyzing, isLoading, errorShown, lastMessage, pending,
                   polledAt>>

NextCase == ParseLegalResponse

SpecCase == Init /\ [][NextCase]_vars

\* ---- the components: handlers ----
\* component c is on the screen
Mounted(c) == ~showWelcome /\ activeComponent = c

\* disabled={isAnalyzing || rateLimitCountdown > 0} of the submit button of
\* CaseAnalysis
SubmitDisabled == isAnalyzing \/ rateLimitCountdown > 0

\* disabled={!input.trim() || isLoading || rateLimitCountdown > 0} of the
\* send button of ChatInterface
SendDisabled == trim(input) = <<>> \/ isLoading \/ rateLimitCountdown > 0

\* the documents a successful request returns to CaseAnalysis
Answers ==
    {[title |-> "Tenant Rights", summary |-> "Deposit dispute",
      content |-> c] :
        c \in {<<textOf("The tenancy is protected.")>>,
               <<listOf(RecommendedActionsTitle, <<"Send a legal notice">>),
                 suggestionOf("Talk to a lawyer")>>}}

\* the type of the message that the catch block of ChatInterface adds for
\* the error o
messageType(o) ==
    CASE o.kind = "RateLimited" -> "rate_limit"
      [] o.kind = "AllBackendsExhausted" -> "rate_limit"
      [] OTHER -> IF \/ includes(o.message, NeedleRateLimit)
                     \/ includes(o.message, NeedleQuota)
                  THEN "rate_limit"
                  ELSE "error"

\* checkRateLimit() of the mounted component
checkRateLimit ==
    LET c == canMakeRequest(requests, lastRequestTime, now) IN
    [requests |-> c.requests,
     rateLimitCountdown |->
        IF ~c.ret
        THEN CeilDiv(getTimeUntilNextRequest(c.requests, lastRequestTime,
                                             now),
                     Second)
        ELSE 0]

\* a component is mounted with its initial state; its effect calls
\* checkRateLimit() and starts the interval
Mount ==
    /\ formData' = EmptyForm
    /\ input' = <<>>
    /\ isAnalyzing' = FALSE
    /\ isLoading' = FALSE
    /\ errorShown' = NoError
    /\ lastMessage' = NoMessage
    /\ requests' = checkRateLimit.requests
    /\ rateLimitCountdown' = checkRateLimit.rateLimitCountdown
    /\ polledAt' = now
    /\ UNCHANGED <<now, lastRequestTime, sends, settled, admissions, pending,
                   loopVars, normVars, caseVars>>

\* setShowWelcome(false): CaseAnalysis appears
HideWelcome ==
    /\ showWelcome
    /\ showWelcome' = FALSE
    /\ UNCHANGED activeComponent
    /\ Mount

\* setActiveComponent(c), when no response is awaited
SetActiveComponent(c) ==
    /\ ~showWelcome
    /\ activeComponent # c
    /\ pending = NoPending
    /\ activeComponent' = c
    /\ UNCHANGED showWelcome
    /\ Mount

\* checkRateLimit as the callback of setInterval(checkRateLimit, 1000)
IntervalElapsed ==
    /\ ~showWelcome
    /\ now - polledAt = Second
    /\ requests' = checkRateLimit.requests
    /\ rateLimitCountdown' = checkRateLimit.rateLimitCountdown
    /\ polledAt' = now
    /\ UNCHANGED <<now, lastRequestTime, sends, settled, admissions,
                   showWelcome, activeComponent, formData, input,
                   isAnalyzing, isLoading, errorShown, lastMessage, pending,
                   loopVars, normVars, caseVars>>

\* handleInputChange of CaseAnalysis; the fields are disabled while
\* isAnalyzing
HandleInputChange(name, value) ==
    /\ Mounted("caseAnalysis")
    /\ ~isAnalyzing
    /\ formData[name] # value
    /\ formData' = [formData EXCEPT ![name] = value]
    /\ errorShown' = NoError
    /\ UNCHANGED <<now, requests, lastRequestTime, sendVars, showWelcome,
                   activeComponent, input, isAnalyzing, isLoading,
                   lastMessage, pending, polledAt, loopVars, normVars,
                   caseVars>>

\* onChange of the chat input; the input is disabled while
\* rateLimitCountdown > 0 || isLoading
SetInput(value) ==
    /\ Mounted("chat")
    /\ ~(rateLimitCountdown > 0 \/ isLoading)
    /\ input # value
    /\ input' = value
    /\ UNCHANGED <<now, requests, lastRequestTime, sendVars, showWelcome,
                   activeComponent, formData, isAnalyzing, isLoading,
                   errorShown, lastMessage, pending, polledAt, loopVars,
                   normVars, caseVars>>

\* getStructuredChatResponse(prompt) up to its await, called with the
\* array reqs that the handler's own check left: the dispatcher checks
\* again and throws, or records and invokes the first model
Dispatch(reqs) ==
    LET c == canMakeRequest(reqs, lastRequestTime, now) IN
    IF ~c.ret
    THEN [thrown |-> TRUE,
          error |-> RateLimitedError(
                        getTimeUntilNextRequest(c.requests, lastRequestTime,
                                                now)),
          requests |-> c.requests,
          lastRequestTime |-> lastRequestTime]
    ELSE [thrown |-> FALSE,
          error |-> NoOutcome,
          requests |-> recordRequest(c.requests, now).requests,
          lastRequestTime |-> recordRequest(c.requests, now).lastRequestTime]

\* the data the user has entered
Entered == [formData |-> formData, input |-> input]

\* handleSubmit of CaseAnalysis, up to its await or its return
HandleSubmitCase ==
    /\ Mounted("caseAnalysis")
    /\ ~SubmitDisabled
    /\ IF \E name \in Fields : formData[name] = ""
       THEN /\ errorShown' = [kind |-> "required"]
            /\ UNCHANGED <<requests, lastRequestTime, isAnalyzing, pending,
                           analysis>>
       ELSE LET c == canMakeRequest(requests, lastRequestTime, now)
                d == Dispatch(c.requests)
            IN  IF ~c.ret
                THEN /\ errorShown' = [kind |-> "RateLimitActive",
                                  seconds |-> rateLimitCountdown]
                     /\ requests' = c.requests
                     /\ UNCHANGED <<lastRequestTime, isAnalyzing, pending,
                                    analysis>>
                ELSE /\ requests' = d.requests
                     /\ lastRequestTime' = d.lastRequestTime
                     /\ analysis' = NoAnalysis
                     /\ errorShown' = IF d.thrown THEN d.error ELSE NoError
                     /\ isAnalyzing' = ~d.thrown
                     /\ pending' = IF d.thrown THEN pending
                                   ELSE [attempt |-> 1, submitted |-> Entered]
    /\ UNCHANGED <<now, sends, settled, admissions, rateLimitCountdown,
                   showWelcome, activeComponent, formData, input, isLoading,
                   lastMessage, polledAt, response, received, loopVars,
                   normVars>>

\* handleSubmit of ChatInterface, up to its await or its return
HandleSubmitChat ==
    /\ Mounted("chat")
    /\ ~SendDisabled
    /\ LET c == canMakeRequest(requests, lastRequestTime, now)
           d == Dispatch(c.requests)
       IN  IF ~c.ret
           THEN /\ lastMessage' =
                      [type |-> "rate_limit",
                       seconds |->
                          CeilDiv(getTimeUntilNextRequest(c.requests,
                                                          lastRequestTime,
                                                          now),
                                  Second)]
                /\ requests' = c.requests
                /\ UNCHANGED <<lastRequestTime, input, isLoading, pending>>
           ELSE /\ requests' = d.requests
                /\ lastRequestTime' = d.lastRequestTime
                /\ input' = <<>>
                /\ lastMessage' =
                      IF d.thrown THEN [type |-> messageType(d.error)]
                      ELSE [type |-> "user", content |-> trim(input)]
                /\ isLoading' = ~d.thrown
                /\ pending' = IF d.thrown THEN pending
                              ELSE [attempt |-> 1, submitted |-> Entered]
    /\ UNCHANGED <<now, sends, settled, admissions, rateLimitCountdown,
                   showWelcome, activeComponent, formData, isAnalyzing,
                   errorShown, polledAt, loopVars, normVars, caseVars>>

\* the awaited getStructuredChatResponse resolved: the try block ends and
\* finally runs
Resolved ==
    /\ pending' = NoPending
    /\ IF activeComponent = "caseAnalysis"
       THEN /\ \E doc \in Answers :
                  /\ received' = doc
                  /\ response' = parseLegalResponse(doc).doc
                  /\ analysis' = parseLegalResponse(doc).ret
            /\ isAnalyzing' = FALSE
            /\ UNCHANGED <<errorShown, lastMessage, isLoading>>
       ELSE /\ lastMessage' = [type |-> "ai"]
            /\ isLoading' = FALSE
            /\ UNCHANGED <<errorShown, isAnalyzing, caseVars>>
    /\ UNCHANGED <<requests, lastRequestTime>>

\* the awaited getStructuredChatResponse rejected with o: catch and finally
\* run
Rejected(o) ==
    /\ pending' = NoPending
    /\ IF activeComponent = "caseAnalysis"
       THEN /\ errorShown' = o
            /\ isAnalyzing' = FALSE
            /\ UNCHANGED <<lastMessage, isLoading>>
       ELSE /\ lastMessage' = [type |-> messageType(o)]
            /\ isLoading' = FALSE
            /\ UNCHANGED <<errorShown, isAnalyzing>>
    /\ UNCHANGED <<requests, lastRequestTime, caseVars>>

\* the backend call that the dispatcher awaits for the handler returns or
\* raises: the dispatcher returns, goes on to the second model, or throws
BackendReplies(reply) ==
    /\ pending # NoPending
    /\ LET i == pending.attempt
           ms == models(TRUE)
       IN  IF reply.ok
           THEN Resolved
           ELSE IF catchDecision(reply.message) = "continue"
                THEN IF i < Len(ms)
                     THEN /\ requests' = recordRequest(requests, now).requests
                          /\ lastRequestTime' =
                                recordRequest(requests, now).lastRequestTime
                          /\ pending' = [pending EXCEPT !.attempt = i + 1]
                          /\ UNCHANGED <<isAnalyzing, isLoading, errorShown,
                                         lastMessage, caseVars>>
                     ELSE Rejected(afterLoop(ms[i], reply.message))
                ELSE Rejected(BackendError(ms[i], reply.message))
    /\ UNCHANGED <<now, sends, settled, admissions, rateLimitCountdown,
                   showWelcome, activeComponent, formData, input, polledAt,
                   loopVars, normVars>>

\* the clock advances, but not past an interval callback that is due
TickComponents ==
    /\ now < Epoch + MaxTicks
    /\ showWelcome \/ now - polledAt < Second
    /\ now' = now + 1
    /\ UNCHANGED <<requests, lastRequestTime, sendVars, loopVars, normVars,
                   componentVars>>

NextComponents ==
    \/ TickComponents
    \/ HideWelcome
    \/ \E c \in {"caseAnalysis", "chat"} : SetActiveComponent(c)
    \/ IntervalElapsed
    \/ \E name \in Fields, value \in Entries : HandleInputChange(name, value)
    \/ \E value \in InputTexts : SetInput(value)
    \/ HandleSubmitCase
    \/ HandleSubmitChat
    \/ \E r \in Replies : BackendReplies(r)

SpecComponents == Init /\ [][NextComponents]_vars

\* ---- vocabulary of the properties ----
\* the timestamps of a sequence that lie in the trailing window at time t
InWindow(reqs, t) == SelectSeq(reqs, LAMBDA time : t - time < timeWindow)

\* a reply that is a quota-class error: its message contains '429' or 'quota'
QuotaClass(reply) == ~reply.ok /\ reply.message \in {Msg429, MsgQuota}

\* the order of targets that useFlashFirst selects
SelectedOrder(useFlashFirst) ==
    IF useFlashFirst THEN <<"flashModel", "proModel">>
    ELSE <<"proModel", "flashModel">>

\* a dispatcher send has settled
SettledAPI == settled.pc = "done" /\ settled.fn = "api"

\* this step begins a backend invocation in slot s (recordRequest ran)
BeginsInvocation(s) ==
    /\ sends'[s].pc = "awaiting"
    /\ Len(sends'[s].invoked) = Len(sends[s].invoked) + 1

\* this step is a call of makeAPIRequestWithFallback or sendChatMessage:
\* no send in flight moves, and a slot is taken or a send settles at once
NewSend ==
    /\ now' = now
    /\ \A s \in Slots : sends[s].pc = "awaiting" => sends'[s] = sends[s]
    /\ sends' # sends \/ settled' # settled

\* C1: every interval of length timeWindow holds at most
\* maxRequestsPerMinute recordRequest timestamps, fallback attempts
\* included.  admissions holds exactly the timestamps of the trailing
\* window, so an interval with too many is seen when its last one is pushed.
C1_WindowCap ==
    \A i \in DOMAIN admissions :
        Cardinality({k \in DOMAIN admissions :
                        /\ admissions[k] >= admissions[i]
                        /\ admissions[k] < admissions[i] + timeWindow})
            <= maxRequestsPerMinute

\* C2: any two consecutive recordRequest timestamps, fallback attempts
\* included, are at least minInterval apart.
C2_MinSpacing ==
    \A k \in 1..(Len(admissions) - 1) :
        admissions[k + 1] - admissions[k] >= minInterval

\* C3: in every reachable governor state, getTimeUntilNextRequest() is 0
\* exactly when canMakeRequest() is true, whether it is called before
\* canMakeRequest() (on the array as it is) or after it (on the pruned one).
C3_ZeroIffAdmitted ==
    LET c == canMakeRequest(requests, lastRequestTime, now) IN
    /\ (getTimeUntilNextRequest(requests, lastRequestTime, now) = 0) <=> c.ret
    /\ (getTimeUntilNextRequest(c.requests, lastRequestTime, now) = 0) <=> c.ret

\* C4: canMakeRequest() is false exactly when the last request is less
\* than minInterval ago or at least maxRequestsPerMinute recorded
\* timestamps lie within timeWindow of now, and true otherwise.
C4_AdmissionRule ==
    canMakeRequest(requests, lastRequestTime, now).ret
        <=> ~ \/ now - lastRequestTime < minInterval
              \/ Cardinality({i \in DOMAIN requests :
                                now - requests[i] < timeWindow})
                    >= maxRequestsPerMinute

\* C4 witness: a send was refused at this instant by the window cap alone.
C4_Witness ==
    /\ settled.outcome.kind = "RateLimited"
    /\ now - lastRequestTime >= minInterval
    /\ Len(requests) >= maxRequestsPerMinute
    /\ settled.outcome.wait = timeWindow - (now - MinOf(requests))
    /\ ~canMakeRequest(requests, lastRequestTime, now).ret

\* C5 as claimed: only recordRequest changes the record sequence or
\* lastRequestTime; canMakeRequest, getTimeUntilNextRequest and the poll
\* tick leave both exactly as they were.
C5_OnlyRecordMutates ==
    [][(\E s \in Slots : BeginsInvocation(s))
       \/ UNCHANGED <<requests, lastRequestTime>>]_vars

\* C5 amended: lastRequestTime changes, and a timestamp is added, only
\* when recordRequest runs; any other step (a poll tick, a refused send)
\* leaves lastRequestTime alone and removes from the record sequence at
\* most the expired timestamps, and those only past the spacing gate.
C5_OnlyRecordAdds ==
    [][IF \E s \in Slots : BeginsInvocation(s)
       THEN /\ lastRequestTime' = now
            /\ requests' \in {Append(requests, now),
                              Append(InWindow(requests, now), now)}
       ELSE /\ lastRequestTime' = lastRequestTime
            /\ \/ requests' = requests
               \/ /\ requests' = InWindow(requests, now)
                  /\ now - lastRequestTime >= minInterval]_vars

\* C5 witness: every record, the last one included, has been pruned away.
C5_Witness == lastRequestTime > 0 /\ requests = <<>>

\* C6: a send called while canMakeRequest() is false fails at once with
\* the local RateLimited error carrying a wait > 0, leaves requests and
\* lastRequestTime unchanged and invokes no backend target.
C6_RefusedSendIsInert ==
    [][(NewSend /\ ~canMakeRequest(requests, lastRequestTime, now).ret)
       => /\ settled'.pc = "done"
          /\ settled'.outcome.kind = "RateLimited"
          /\ settled'.outcome.wait > 0
          /\ settled'.invoked = <<>>
          /\ sends' = sends
          /\ requests' = requests
          /\ lastRequestTime' = lastRequestTime]_vars

\* C7: a dispatcher send whose first target raised a quota-class error
\* and whose second target succeeded returns the second target's result,
\* invoked each target once in the selected order, and recorded exactly
\* two admissions.
C7_FallbackResult ==
    (/\ SettledAPI
     /\ Len(settled.replies) = 2
     /\ QuotaClass(settled.replies[1])
     /\ settled.replies[2].ok)
    => /\ settled.outcome
            = [kind |-> "result",
               from |-> SelectedOrder(settled.useFlashFirst)[2]]
       /\ settled.invoked = SelectedOrder(settled.useFlashFirst)
       /\ settled.recorded = 2

\* C7 witness: such a send has settled, with the pro model tried first.
C7_Witness ==
    /\ SettledAPI
    /\ ~settled.useFlashFirst
    /\ Len(settled.replies) = 2
    /\ QuotaClass(settled.replies[1])
    /\ settled.replies[2].ok
    /\ settled.outcome.kind = "result"

C9_AllExhausted ==
    (/\ SettledAPI
     /\ Len(settled.replies) = 2
     /\ QuotaClass(settled.replies[1])
     /\ QuotaClass(settled.replies[2]))
    => /\ settled.outcome = [kind |-> "AllBackendsExhausted"]
       /\ settled.outcome.kind \notin {"BackendError", "RateLimited"}
       /\ settled.invoked = SelectedOrder(settled.useFlashFirst)

\* C9 witness: a send settled after a 429 and then a quota error.
C9_Witness ==
    /\ SettledAPI
    /\ settled.replies = <<[ok |-> FALSE, message |-> Msg429],
                           [ok |-> FALSE, message |-> MsgQuota]>>
    /\ settled.outcome.kind = "AllBackendsExhausted"

\* C10: recorded admissions and backend invocations go one to one: each
\* send, in flight or settled, dispatcher or chat, has pushed exactly as
\* many timestamps as it has invoked targets, and every step pushes as
\* many timestamps as it begins invocations.
C10_RecordPerInvocation ==
    /\ [](/\ \A s \in Slots : sends[s].recorded = Len(sends[s].invoked)
          /\ settled.recorded = Len(settled.invoked))
    /\ [][now' = now =>
            Len(admissions') - Len(admissions)
                = Cardinality({s \in Slots : BeginsInvocation(s)})]_vars

\* C10 witness: a chat send has recorded and invoked once while a
\* dispatcher send is in its fallback attempt.
C10_Witness ==
    /\ settled.fn = "chat"
    /\ settled.recorded = 1
    /\ Len(settled.invoked) = 1
    /\ \E s \in Slots : /\ sends[s].fn = "api"
                        /\ sends[s].pc = "awaiting"
                        /\ sends[s].recorded = 2
                        /\ Len(sends[s].invoked) = 2

\* C13: getTimeUntilNextRequest() is the remaining spacing time when the
\* spacing gate blocks; otherwise, when at least maxRequestsPerMinute
\* records lie in the window, the strictly positive time until the oldest
\* of them expires; otherwise zero.
C13_WaitTime ==
    LET g == getTimeUntilNextRequest(requests, lastRequestTime, now)
        inW == InWindow(requests, now)
    IN  IF now - lastRequestTime < minInterval
        THEN g = minInterval - (now - lastRequestTime)
        ELSE IF Len(inW) >= maxRequestsPerMinute
             THEN g = timeWindow - (now - MinOf(inW)) /\ g > 0
             ELSE g = 0

\* C14: waiting recovers admission: once no recordRequest timestamp lies
\* in the trailing window, that is from timeWindow after the last recorded
\* admission on, canMakeRequest() returns true.
C14_RecoversByWaiting ==
    /\ admissions = <<>> => canMakeRequest(requests, lastRequestTime, now).ret
    /\ now - lastRequestTime >= timeWindow
          => canMakeRequest(requests, lastRequestTime, now).ret

\* C14 witness: a send was refused, the clock ran on without a further
\* record, and admission is granted again while requests still holds the
\* expired records.
C14_Witness ==
    /\ settled.outcome.kind = "RateLimited"
    /\ lastRequestTime > 0
    /\ requests # <<>>
    /\ admissions = <<>>
    /\ canMakeRequest(requests, lastRequestTime, now).ret

\* send s has passed the pre-flight check and not yet recorded
PassedUnrecorded(s) == lpc[s].at = "record" /\ lpc[s].attempt = 1

\* this step is send s executing rateLimiter.recordRequest()
RecordsNow(s) == lpc[s].at = "record" /\ lpc'[s].at = "invoke"

\* C11: every recordRequest call is directly preceded by a
\* canMakeRequest call that returned true: the latest call on the
\* RateLimiter before it is that check, not another recordRequest.
C11_RecordAfterCheck ==
    [][\A s \in Slots : RecordsNow(s) => lastGov = "check_true"]_vars

\* C12: two sends never pass the pre-flight check against the same
\* governor state: at most one send stands between its successful check
\* and its first record, and while it does no other send executes a
\* statement.
C12_CheckRecordAtomic ==
    /\ [](Cardinality({s \in Slots : PassedUnrecorded(s)}) <= 1)
    /\ [][\A s \in Slots :
            PassedUnrecorded(s)
                => \A q \in Slots \ {s} : lpc'[q] = lpc[q]]_vars

\* C12 witness: a send stands between check and record while another
\* send is suspended in its backend call.
C12_Witness ==
    \E s \in Slots, q \in Slots :
        /\ s # q
        /\ PassedUnrecorded(s)
        /\ lpc[q].at = "await"
        /\ turn = s

\* ---- the properties of the normalizer ----
\* the request function has run to its end
Done == npc = "done"

\* the parts of the document the request function returned
Title == Get(nout.doc, KeyTitle)
Summary == Get(nout.doc, KeySummary)
Content == Get(nout.doc, KeyContent)

\* a value that is absent or the empty string
Empty(value) ==
    \/ value.t \in {"undefined", "null"}
    \/ value.t = "string" /\ value.s = <<>>

\* a string that is not empty
NonEmptyString(value) == value.t = "string" /\ value.s # <<>>

\* C15: the request function never raises: whatever the backend text,
\* it ends by returning an object with a title, a summary and a
\* content, and no error leaves it.
C15_NeverRaises ==
    Done => /\ nout.kind = "return"
            /\ nout.doc.t = "object"
            /\ \A key \in {KeyTitle, KeySummary, KeyContent} :
                    Get(nout.doc, key) # JUndefined

\* C15 witness: the try block threw, the try block inside the catch
\* block threw as well, and the function still returned a document.
C15_Witness ==
    /\ Done
    /\ nout.kind = "return"
    /\ tryBlock(ntext).kind = "throw"
    /\ matchGreedy(ntext).found
    /\ innerTry(matchGreedy(ntext).s).error = "TypeError"

\* C16: every document the normalizer returns has a title and a summary
\* that are not empty.
C16_TitleSummaryNonEmpty ==
    Done /\ nout.kind = "return" => ~Empty(Title) /\ ~Empty(Summary)

\* an object that is one content item: a type and a string content, no
\* title and no summary
BareItem(value) ==
    /\ value.t = "object"
    /\ NonEmptyString(Get(value, KeyType))
    /\ NonEmptyString(Get(value, KeyContent))
    /\ Get(value, KeyTitle) = JUndefined
    /\ Get(value, KeySummary) = JUndefined

\* C17: a parsed bare item yields the title "Legal Analysis", a content
\* of that one item, and as summary the item's content when it has at
\* most 100 characters, else its first 100 characters and an ellipsis.
C17_BareItemWrapped ==
    Done /\ BareItem(nparsed) =>
        LET content == Get(nparsed, KeyContent).s IN
        /\ nout.kind = "return"
        /\ Title = JString(LegalAnalysis)
        /\ Content = JArray(<<nparsed>>)
        /\ Summary = JString(IF Len(content) <= SummaryLimit THEN content
                             ELSE SubSeq(content, 1, SummaryLimit)
                                  \o Ellipsis)

\* no stage of the normalizer could parse the text as JSON
NoStageParses ==
    /\ ~JSONparse(ntext).ok
    /\ matchGreedy(ntext).found => ~JSONparse(matchGreedy(ntext).s).ok

\* C18: when no stage can parse the backend text, the document's
\* content is two items: a text item holding the backend text as it
\* came, and the warning item with the fixed disclaimer.
C18_FallbackHoldsRawText ==
    Done /\ NoStageParses =>
        Content = JArray(<<ChatResponseItem(TypeText, JString(nraw)),
                           ChatResponseItem(TypeWarning,
                                            JString(GeneralInformationOnly))>>)

\* p is the result of parsing the JSON of a document: a title and a
\* summary that are non-empty strings and a content that is a non-empty
\* array
ParsesToDocument(p) ==
    /\ p.ok
    /\ p.val.t = "object"
    /\ NonEmptyString(Get(p.val, KeyTitle))
    /\ NonEmptyString(Get(p.val, KeySummary))
    /\ Get(p.val, KeyContent).t = "array"
    /\ Get(p.val, KeyContent).items # <<>>

\* the backend text is the JSON of a document
ValidDocument(text) == ParsesToDocument(JSONparse(text))

\* the function returned the title, summary and content of document
ReturnsPartsOf(document) ==
    /\ nout.kind = "return"
    /\ Title = Get(document, KeyTitle)
    /\ Summary = Get(document, KeySummary)
    /\ Content = Get(document, KeyContent)

\* C19: round trip: a backend text that is the JSON of a document comes
\* back as a document with the same title, summary and content.
C19_RoundTrip ==
    Done /\ ValidDocument(nraw) => ReturnsPartsOf(JSONparse(nraw).val)

\* braces opened and not yet closed after position k of text
Depth(text, k) ==
    Cardinality({m \in 1..k : text[m] = "{"})
        - Cardinality({m \in 1..k : text[m] = "}"})

\* every brace of text has its partner
Balanced(text) ==
    /\ \A k \in 1..Len(text) : Depth(text, k) >= 0
    /\ Depth(text, Len(text)) = 0

\* the last span of a balanced text that opens outside every brace and
\* runs to the brace that closes it
LastTopLevelSpan(text) ==
    LET opens == {k \in 1..Len(text) :
                    text[k] = "{" /\ Depth(text, k - 1) = 0}
        open == CHOOSE k \in opens : \A m \in opens : m <= k
        closes == {k \in open..Len(text) : Depth(text, k) = 0}
        close == CHOOSE k \in closes : \A m \in closes : k <= m
    IN  SubSeq(text, open, close)

\* the text parsed is the last top-level span of the cleaned text, when
\* that text has braces and they are balanced
ParsesLastSpanOf(cleaned) ==
    Balanced(cleaned) /\ (\E k \in 1..Len(cleaned) : cleaned[k] = "{")
        => ntext = LastTopLevelSpan(cleaned)

\* C20: of the brace spans in the text the normalizer parses the last
\* top-level balanced one, whole, whatever its nesting depth.
C20_ParsesLastTopLevelSpan ==
    npc \in {"extracted", "catch", "done"}
        => ParsesLastSpanOf(cleanUp(trim(nraw)))

\* ---- the properties of parseLegalResponse ----
\* parseLegalResponse has returned
Analysed == analysis # NoAnalysis

\* the four lists of a LegalAnalysis
Lists == {"keyIssues", "recommendedActions", "potentialRisks", "nextSteps"}

\* the list xs of the analysis returned, as it lies in memory
Returned(xs) == array(response, analysis[xs])

\* the k-th content item of the document handed in is a list whose items
\* array exists
ListWithItems(k) ==
    /\ received.content[k].type = "list"
    /\ "items" \in DOMAIN received.content[k]

\* C21: parseLegalResponse leaves the document it is handed unchanged: after
\* the call the document, and in particular the items of every list item,
\* are what they were before the call, in every order of list and suggestion
\* items.
C21_DocumentUnchanged ==
    Analysed =>
        /\ response = received
        /\ \A k \in 1..Len(received.content) :
              ListWithItems(k) =>
                  response.content[k].items = received.content[k].items

\* the default of each list
Default ==
    [keyIssues |-> KeyIssuesDefault,
     recommendedActions |-> RecommendedActionsDefault,
     potentialRisks |-> PotentialRisksDefault,
     nextSteps |-> NextStepsDefault]

\* the loop over the document handed in left the list xs empty
LeftEmpty(m, xs) == Len(array(m.doc, m.l[xs])) = 0

\* the analysis returned holds a list of its own where the loop left m.l[xs]
\* empty, with the default in it, and holds a non-empty list in any case
NonEmptyOrDefault(m, xs) ==
    /\ Len(Returned(xs)) > 0
    /\ LeftEmpty(m, xs) => analysis[xs] = own(Default[xs])

\* C26: each of the four lists that parseLegalResponse returns (keyIssues,
\* recommendedActions, potentialRisks, nextSteps) is non-empty: a list that
\* the document left empty holds its fixed default.
C26_ListsNonEmpty ==
    Analysed =>
        \A m \in {forEach([doc |-> received, l |-> Locals], 1)} :
            \A xs \in Lists : NonEmptyOrDefault(m, xs)

\* a document with an empty items array for recommendedActions and a list
\* of issues was analysed: one list holds its default, one the document's
C26_Witness ==
    /\ Analysed
    /\ \E k \in 1..Len(received.content) :
          received.content[k] = listOf(RecommendedActionsTitle, <<>>)
    /\ Returned("recommendedActions") = RecommendedActionsDefault
    /\ Returned("keyIssues") = <<"Notice period">>
    /\ Returned("nextSteps") = NextStepsDefault
    /\ Returned("potentialRisks") = PotentialRisksDefault

\* C27: the content of every suggestion item of the document is an element
\* of recommendedActions, in any order of list and suggestion items.
C27_SuggestionsRecommended ==
    Analysed =>
        \A k \in 1..Len(received.content) :
            received.content[k].type = "suggestion" =>
                \E n \in 1..Len(Returned("recommendedActions")) :
                    Returned("recommendedActions")[n]
                        = received.content[k].content

\* ---- further properties of the governor ----
\* C24: pruning happens on each admission check: immediately after any
\* canMakeRequest() call, whatever it returns, every timestamp t left in
\* the record sequence satisfies now - t < timeWindow.
C24_PrunedAfterEachCheck ==
    LET c == canMakeRequest(requests, lastRequestTime, now) IN
    \A i \in DOMAIN c.requests : now - c.requests[i] < timeWindow

\* the governor has recorded nothing yet
Fresh == requests = <<>> /\ lastRequestTime = 0

\* the instants within minInterval of now
Burst == {now + d : d \in 0..(minInterval - 1)}

\* C25 as claimed: on a fresh governor the first canMakeRequest() returns
\* true and every further canMakeRequest() called within minInterval of it
\* returns false.
C25_BurstOfChecksRefused ==
    Fresh =>
        LET first == canMakeRequest(requests, lastRequestTime, now) IN
        /\ first.ret
        /\ \A t \in Burst :
              ~canMakeRequest(first.requests, lastRequestTime, t).ret

\* C25 amended: on a fresh governor canMakeRequest() returns true, and goes
\* on returning true however often it is called, until recordRequest()
\* records the admission; from then on every canMakeRequest() within
\* minInterval of the recorded admission returns false, whatever the record
\* count.
C25_BurstAfterRecordRefused ==
    /\ Fresh =>
          \A t \in Burst :
              canMakeRequest(requests, lastRequestTime, t)
                  = [ret |-> TRUE, requests |-> <<>>]
    /\ (lastRequestTime > 0 /\ now - lastRequestTime < minInterval) =>
          ~canMakeRequest(requests, lastRequestTime, now).ret

\* C25 witness: after the one admission recorded on a fresh governor a
\* send was refused within minInterval, with the record count below the cap.
C25_Witness ==
    /\ settled.pc = "done"
    /\ settled.outcome.kind = "RateLimited"
    /\ admissions = <<lastRequestTime>>
    /\ requests = <<lastRequestTime>>
    /\ Len(requests) < maxRequestsPerMinute
    /\ now - lastRequestTime < minInterval

\* C29: the wait is sufficient: when getTimeUntilNextRequest() returns
\* w > 0 and no admission is recorded during the next w, canMakeRequest()
\* returns true at now + w, in every reachable state of the governor.
C29_WaitSuffices ==
    LET w == getTimeUntilNextRequest(requests, lastRequestTime, now) IN
    w > 0 => canMakeRequest(requests, lastRequestTime, now + w).ret

\* the sends in flight and the send that settled last
SendRecords == {sends[s] : s \in Slots} \cup {settled}

\* the targets a send has invoked are the first ones of the order it
\* selected, each once: a dispatcher send at most its two models, a chat
\* send at most its session
InvokedOncePerTarget(sd) ==
    /\ Len(sd.invoked) <= 2
    /\ \A i, j \in DOMAIN sd.invoked : i # j => sd.invoked[i] # sd.invoked[j]
    /\ sd.fn = "api" =>
          /\ Len(sd.invoked) <= Len(models(sd.useFlashFirst))
          /\ \A i \in DOMAIN sd.invoked :
                sd.invoked[i] = models(sd.useFlashFirst)[i]
    /\ sd.fn = "chat" => sd.invoked \in {<<>>, <<chatSession>>}
    /\ Len(sd.replies) <= Len(sd.invoked)

\* a send has its outcome when it has settled, one of the four, and none
\* before
OneOutcome(sd) ==
    IF sd.pc = "done"
    THEN sd.outcome.kind
            \in {"result", "RateLimited", "AllBackendsExhausted",
                 "BackendError"}
    ELSE sd.outcome = NoOutcome

\* C28: each send invokes the backend at most twice, once per target and
\* never the same target twice, and, when every backend call returns or
\* raises, terminates with exactly one outcome: a backend result, the local
\* RateLimited error, AllBackendsExhausted or the non-quota backend error.
C28_AtMostTwiceAndSettles ==
    /\ [](\A sd \in SendRecords : InvokedOncePerTarget(sd) /\ OneOutcome(sd))
    /\ \A s \in Slots :
          (sends[s].pc = "awaiting") ~> (sends[s].pc = "idle")

\* C28 witness: a dispatcher send has settled after invoking both targets
\* while another send is awaiting its second target.
C28_Witness ==
    /\ SettledAPI
    /\ Len(settled.invoked) = 2
    /\ settled.outcome.kind = "AllBackendsExhausted"
    /\ \E s \in Slots :
          /\ sends[s].pc = "awaiting"
          /\ Len(sends[s].invoked) = 2
          /\ Len(sends[s].replies) = 1

\* ---- the properties of the components ----
\* the data the user had entered when submitting: what the pending request
\* was submitted with, or what is entered now if this step is the submit
Submitted == IF pending # NoPending THEN pending.submitted ELSE Entered

\* this step displays the failure of a submit: the handler's own check or
\* the dispatcher refused (local RateLimited), or the awaited request was
\* rejected with AllBackendsExhausted or a backend error
FailureDisplayed ==
    /\ \/ HandleSubmitCase
       \/ HandleSubmitChat
       \/ \E reply \in Replies : BackendReplies(reply)
    /\ pending' = NoPending
    /\ \/ /\ activeComponent = "caseAnalysis"
          /\ errorShown'.kind \in {"RateLimitActive", "RateLimited",
                                   "AllBackendsExhausted", "BackendError"}
       \/ /\ activeComponent = "chat"
          /\ lastMessage'.type \in {"rate_limit", "error"}

\* C22: when a submit fails (local RateLimited, AllBackendsExhausted or any
\* backend error) the data the user entered is preserved: after the failure
\* is displayed the formData of CaseAnalysis and the input text of
\* ChatInterface hold the values they held when the user submitted.
C22_EnteredDataPreserved ==
    [][FailureDisplayed =>
          /\ formData' = Submitted.formData
          /\ input' = Submitted.input]_vars

\* the governor would refuse admission now
Blocking == ~canMakeRequest(requests, lastRequestTime, now).ret

\* the submit control of the component on the screen is enabled
ControlEnabled ==
    /\ ~showWelcome
    /\ IF activeComponent = "caseAnalysis" THEN ~SubmitDisabled
       ELSE ~SendDisabled

\* C23: whenever the governor would refuse admission the submit control of
\* the component on the screen is disabled: it is never enabled while the
\* governor is blocking, the interval between a recorded admission and the
\* next 1-second poll included.
C23_DisabledWhileBlocking == Blocking => ~ControlEnabled

\* the instants from now on within which the window of every record ends
Later == {now + d : d \in 0..(timeWindow + minInterval)}

\* C30: with no recordRequest() in between, admission is monotone in time:
\* once canMakeRequest() returned true it returns true at every later
\* instant; so a submit that passed the check of its handler is never
\* refused by the dispatcher's check in the same turn of the event loop.
C30_AdmissionMonotone ==
    /\ \A t \in Later :
          canMakeRequest(requests, lastRequestTime, now).ret =>
              /\ canMakeRequest(requests, lastRequestTime, t).ret
              /\ canMakeRequest(canMakeRequest(requests, lastRequestTime,
                                               now).requests,
                                lastRequestTime, t).ret
    /\ canMakeRequest(requests, lastRequestTime, now).ret =>
          ~Dispatch(canMakeRequest(requests, lastRequestTime,
                                   now).requests).thrown
    /\ errorShown.kind # "RateLimited"

\* C30 witness: a second submit passed both checks after the records of an
\* earlier one: the request is in flight, recorded now, and the window
\* holds an earlier record.
C30_Witness ==
    /\ pending # NoPending
    /\ pending.attempt = 1
    /\ lastRequestTime = now
    /\ Len(requests) >= 2
    /\ requests[1] < now
    /\ activeComponent = "chat"
    /\ lastMessage.type = "user"

====
